---- MODULE Spec2Model ----
(***************************************************************************)
(* External sort and Top-N execution core: RowContainer,                   *)
(* SortedRowContainer, the spill actions, SortExec and TopNExec.           *)
(*                                                                         *)
(* Conventions.  A row is a pair of integer columns.          A chunk is  *)
(* the sequence of its rows.  Go slices are 0-based, TLA+ sequences are    *)
(* 1-based: a RowPtr <<chk, row>> of this module is Go's                   *)
(* RowPtr{ChkIdx: chk-1, RowIdx: row-1}; heap positions are kept 0-based   *)
(* as in container/heap and shifted on access.  A Go value that may be nil *)
(* is a sequence of length at most one: <<>> is nil, <<v>> is the value v. *)
(***************************************************************************)
EXTENDS Integers, Sequences, FiniteSets, Bags, TLC

\* ---------------------------------------------------------------- bounds
MaxKey == 1
MaxVal == 1
MaxRows == 3
MaxChunkSize == 2
MaxTasks == 1
MaxIOFaults == 1
MaxFallback == 1
MaxLimit == 2
MaxTopNRows == 4
MaxContRows == 3
MaxOps == 4
MaxExecRows == 2
MaxLaunches == 2
MaxInvocations == 3

BytesPerRow == 8
PtrBytes == 8
topNCompactionFactor == 4

Rows == (0..MaxKey) \X (0..MaxVal)

Nil == <<>>
IsNil(x) == x = <<>>
Some(v) == <<v>>
Val(x) == x[1]

Min(a, b) == IF a < b THEN a ELSE b

RECURSIVE SeqsUpTo(_, _)
SeqsUpTo(S, n) ==
  IF n = 0 THEN {<<>>}
  ELSE LET T == SeqsUpTo(S, n - 1)
       IN T \cup {Append(t, x) : t \in {u \in T : Len(u) = n - 1}, x \in S}

RECURSIVE BagOf(_)
BagOf(s) ==
  IF s = <<>> THEN [r \in {} |-> 0]
  ELSE LET b == BagOf(Tail(s))
           r == Head(s)
       IN [x \in (DOMAIN b) \cup {r} |->
             IF x = r THEN (IF r \in DOMAIN b THEN b[r] + 1 ELSE 1) ELSE b[x]]

SubSeqFrom(s, i) == SubSeq(s, i, Len(s))

\* ---------------------------------------------------------------- state
VARIABLES
  kind,              \* the program under analysis: which component drives the containers
  keyColumns,        \* SortExec.keyColumns / SortedRowContainer.keyColumns
  ByItemsDesc,       \* direction of every by-item
  oomUseTmpStorage,  \* config.OOMUseTmpStorage
  input,             \* every row the child will produce (never changes)
  child,             \* rows the child has not produced yet
  conts,             \* the containers created so far
  rowChunks,         \* SortExec.rowChunks: index into conts, 0 is nil
  partitionList,     \* SortExec.partitionList: indices into conts
  spillAction,       \* the container SortAndSpillDiskAction.c points at, 0 is no action
  fallbackAction,    \* whether the spill action's fallbackAction is set (non-nil)
  tasks,             \* the running goroutines started by Action: a bag of [c, pc]
  pc,                \* position of the executor's goroutine
  chk,               \* the child chunk in hand
  chkI,              \* the running loop's index (0-based): processChildChk's i, Close's range index
  req,               \* the output chunk of the running Next call
  out,               \* every row returned by completed and running Next calls
  Idx,               \* SortExec.Idx
  fetched,           \* SortExec.fetched
  multiWayMerge,     \* SortExec.multiWayMerge (nil or the heap elements)
  limit,             \* TopNExec.limit: [Offset, Count]
  totalLimit,        \* TopNExec.totalLimit
  memTracker,        \* bytes charged on the executor's own tracker (not through a container)
  ioFaults,          \* disk write errors injected so far
  nFallback,         \* invocations of the fallback action so far
  bytesLimit,        \* the byte limit set on the container's memory tracker, -1 is none
  panicOnExceed,     \* a memory.PanicOnExceed and the invocations of its Action
  mutex,             \* the locks of a container and of its spill action, acquisition by acquisition
  at,                \* position of every goroutine that takes those locks
  lastOp             \* the last container operation and its result

vars == <<kind, keyColumns, ByItemsDesc, oomUseTmpStorage, input, child, conts, rowChunks,
          partitionList, spillAction, fallbackAction, tasks, pc, chk, chkI, req, out,
          Idx, fetched, multiWayMerge, limit, totalLimit, memTracker, ioFaults, nFallback,
          bytesLimit, panicOnExceed, mutex, at, lastOp>>

cfgVars == <<kind, keyColumns, ByItemsDesc, oomUseTmpStorage, fallbackAction, input, limit,
             bytesLimit, panicOnExceed, mutex, at>>

\* ---------------------------------------------------------------- comparators
\* chunk.CompareFunc for an integer column: <0, 0, >0.
cmpFunc(rowI, colI, rowJ, colJ) ==
  IF rowI[colI] < rowJ[colJ] THEN -1 ELSE IF rowI[colI] > rowJ[colJ] THEN 1 ELSE 0

RECURSIVE SortedRowContainer_lessRowAt(_, _, _)
SortedRowContainer_lessRowAt(i, rowI, rowJ) ==
  IF i > Len(keyColumns) THEN FALSE
  ELSE LET colIdx == keyColumns[i]
           c0 == cmpFunc(rowI, colIdx, rowJ, colIdx)
           cmp == IF ByItemsDesc[i] THEN -c0 ELSE c0
       IN IF cmp < 0 THEN TRUE
          ELSE IF cmp > 0 THEN FALSE
          ELSE SortedRowContainer_lessRowAt(i + 1, rowI, rowJ)

SortedRowContainer_lessRow(rowI, rowJ) == SortedRowContainer_lessRowAt(1, rowI, rowJ)

\* SortExec.lessRow without the negation for descending by-items.
RECURSIVE lessRow_IgnoreDescAt(_, _, _)
lessRow_IgnoreDescAt(i, rowI, rowJ) ==
  IF i > Len(keyColumns) THEN FALSE
  ELSE LET cmp == cmpFunc(rowI, keyColumns[i], rowJ, keyColumns[i])
       IN IF cmp < 0 THEN TRUE
          ELSE IF cmp > 0 THEN FALSE
          ELSE lessRow_IgnoreDescAt(i + 1, rowI, rowJ)

lessRow_IgnoreDesc(rowI, rowJ) == lessRow_IgnoreDescAt(1, rowI, rowJ)

RECURSIVE SortExec_lessRowAt(_, _, _)
SortExec_lessRowAt(i, rowI, rowJ) ==
  IF i > Len(keyColumns) THEN FALSE
  ELSE LET colIdx == keyColumns[i]
           c0 == cmpFunc(rowI, colIdx, rowJ, colIdx)
           cmp == IF ByItemsDesc[i] THEN -c0 ELSE c0
       IN IF cmp < 0 THEN TRUE
          ELSE IF cmp > 0 THEN FALSE
          ELSE SortExec_lessRowAt(i + 1, rowI, rowJ)

lessRow(rowI, rowJ) == SortExec_lessRowAt(1, rowI, rowJ)

RECURSIVE greaterRowAt(_, _, _)
greaterRowAt(i, rowI, rowJ) ==
  IF i > Len(keyColumns) THEN FALSE
  ELSE LET colIdx == keyColumns[i]
           c0 == cmpFunc(rowI, colIdx, rowJ, colIdx)
           cmp == IF ByItemsDesc[i] THEN -c0 ELSE c0
       IN IF cmp > 0 THEN TRUE
          ELSE IF cmp < 0 THEN FALSE
          ELSE greaterRowAt(i + 1, rowI, rowJ)

\* greaterRow without the negation for descending by-items.
RECURSIVE greaterRow_IgnoreDescAt(_, _, _)
greaterRow_IgnoreDescAt(i, rowI, rowJ) ==
  IF i > Len(keyColumns) THEN FALSE
  ELSE LET cmp == cmpFunc(rowI, keyColumns[i], rowJ, keyColumns[i])
       IN IF cmp > 0 THEN TRUE
          ELSE IF cmp < 0 THEN FALSE
          ELSE greaterRow_IgnoreDescAt(i + 1, rowI, rowJ)

greaterRow_IgnoreDesc(rowI, rowJ) == greaterRow_IgnoreDescAt(1, rowI, rowJ)

greaterRow(rowI, rowJ) == greaterRowAt(1, rowI, rowJ)

\* ---------------------------------------------------------------- sort.Slice
\* sort.Slice is not stable: every arrangement of the elements in which no
\* later element is less than an earlier one is a possible result.  rel is
\* the set of pairs <<a, b>> with less(a, b).
RECURSIVE SortedArrangements(_, _)
SortedArrangements(S, rel) ==
  IF S = {} THEN {<<>>}
  ELSE UNION {{<<m>> \o t : t \in SortedArrangements(S \ {m}, rel)} :
                m \in {x \in S : \A y \in S : <<y, x>> \notin rel}}

Range(s) == {s[i] : i \in DOMAIN s}

sortSlice(s, rel) == SortedArrangements(Range(s), rel)

\* ---------------------------------------------------------------- container/heap
\* A heap element is a record with a field row; mode "min" orders by
\* SortExec.lessRow (multiWayMerge.Less), mode "max" by greaterRow
\* (topNChunkHeap.Less).
heapLess(mode, h, i, j) ==
  IF mode = "min" THEN lessRow(h[i + 1].row, h[j + 1].row)
  ELSE greaterRow(h[i + 1].row, h[j + 1].row)

heapSwap(h, i, j) == [h EXCEPT ![i + 1] = h[j + 1], ![j + 1] = h[i + 1]]

RECURSIVE heapDown(_, _, _, _)
heapDown(mode, h, i, n) ==
  LET j1 == 2 * i + 1
      j2 == j1 + 1
      j == IF j2 < n /\ heapLess(mode, h, j2, j1) THEN j2 ELSE j1
  IN IF j1 >= n THEN [h |-> h, i |-> i]
     ELSE IF ~heapLess(mode, h, j, i) THEN [h |-> h, i |-> i]
     ELSE heapDown(mode, heapSwap(h, i, j), j, n)

RECURSIVE heapUp(_, _, _)
heapUp(mode, h, j) ==
  LET i == (j - 1) \div 2
  IN IF j = 0 \/ ~heapLess(mode, h, j, i) THEN h
     ELSE heapUp(mode, heapSwap(h, i, j), i)

RECURSIVE heapInitFrom(_, _, _)
heapInitFrom(mode, h, i) ==
  IF i < 0 THEN h
  ELSE heapInitFrom(mode, heapDown(mode, h, i, Len(h)).h, i - 1)

heapInit(mode, h) == heapInitFrom(mode, h, (Len(h) \div 2) - 1)

\* heap.Fix that leaves the heap as it is.
heapFix_Skip(mode, h, i) == h

heapFix(mode, h, i) ==
  LET d == heapDown(mode, h, i, Len(h))
  IN IF d.i > i THEN d.h ELSE heapUp(mode, h, i)

\* heap.Pop: swap root and last, sift the new root down in the first n
\* elements, then drop the last element (both Pop methods only shrink).
heapPop(mode, h) ==
  LET n == Len(h) - 1
      d == heapDown(mode, heapSwap(h, 0, n), 0, n)
  IN SubSeq(d.h, 1, n)

\* heap.Remove(h, i)
heapRemove(mode, h, i) ==
  LET n == Len(h) - 1
      s == heapSwap(h, i, n)
      d == heapDown(mode, s, i, n)
      f == IF n = i THEN h ELSE IF d.i > i THEN d.h ELSE heapUp(mode, s, i)
  IN SubSeq(f, 1, n)

\* ---------------------------------------------------------------- chunk.List
\* Chunk.MemoryUsage
MemoryUsage(chunk) == BytesPerRow * Len(chunk)

RECURSIVE ListLen(_)
ListLen(chunks) == IF chunks = <<>> THEN 0 ELSE Len(Head(chunks)) + ListLen(Tail(chunks))

RECURSIVE ListMemory(_)
ListMemory(chunks) ==
  IF chunks = <<>> THEN 0 ELSE MemoryUsage(Head(chunks)) + ListMemory(Tail(chunks))

\* List.Add: the list takes the chunk and charges its footprint.
List_Add(c, chunk) ==
  [c EXCEPT !.records = Append(@, chunk),
            !.consumedIdx = Len(c.records) + 1,
            !.memBytes = @ + MemoryUsage(chunk)]

\* List.AppendRow: the row is copied into the last chunk unless that chunk
\* is full or was handed over by Add; the result is the row's RowPtr.
List_AppendRow(c, row) ==
  LET n == Len(c.records)
      fresh == n = 0 \/ Len(c.records[n]) >= MaxChunkSize \/ n = c.consumedIdx
      recs == IF fresh THEN Append(c.records, <<row>>)
              ELSE [c.records EXCEPT ![n] = Append(@, row)]
      k == Len(recs)
  IN [c |-> [c EXCEPT !.records = recs, !.memBytes = @ + BytesPerRow],
      ptr |-> <<k, Len(recs[k])>>]

List_GetRow(c, ptr) == c.records[ptr[1]][ptr[2]]

\* List.Clear: drops the chunks and debits the list's tracker, which is the
\* container's memory tracker (NewRowContainer), to zero.
List_Clear(c) ==
  [c EXCEPT !.records = <<>>, !.consumedIdx = 0, !.memBytes = 0]

\* List.Reset: drops the chunks and releases their memory charge.
List_Reset(c) ==
  [c EXCEPT !.records = <<>>, !.consumedIdx = 0,
            !.memBytes = @ - ListMemory(c.records)]

\* ---------------------------------------------------------------- chunk.ListInDisk
\* The file is the sequence of rows written so far; offsets[chk][row] is the
\* position of a row in the file.
NewListInDisk == [data |-> <<>>, offsets |-> <<>>]

ListInDisk_Add(l, chunk) ==
  [data |-> l.data \o chunk,
   offsets |-> Append(l.offsets, [i \in 1..Len(chunk) |-> Len(l.data) + i])]

ListInDisk_GetRow(l, ptr) == l.data[l.offsets[ptr[1]][ptr[2]]]

ListInDisk_Len(l) == ListLen(l.offsets)

ListInDisk_NumChunks(l) == Len(l.offsets)

\* ListInDisk.Close on the disk list of container c: the file is deleted and
\* the disk charge released; fail says whether deleting the file fails.
ListInDisk_Close(c, fail) ==
  [c |-> [c EXCEPT !.diskBytes = 0], err |-> IF fail THEN "ioError" ELSE "nil"]

\* ---------------------------------------------------------------- chunk.RowContainer
NewRowContainer ==
  [records |-> <<>>, consumedIdx |-> 0, recordsInDisk |-> Nil, spillError |-> FALSE,
   rowPtrs |-> Nil, memBytes |-> 0, diskBytes |-> 0]

alreadySpilled(c) == ~IsNil(c.recordsInDisk)

NumRow(c) ==
  IF alreadySpilled(c) THEN ListInDisk_Len(Val(c.recordsInDisk)) ELSE ListLen(c.records)

NumChunks(c) ==
  IF alreadySpilled(c) THEN ListInDisk_NumChunks(Val(c.recordsInDisk)) ELSE Len(c.records)

GetChunk(c, chkIdx) ==
  IF ~alreadySpilled(c) THEN c.records[chkIdx]
  ELSE LET l == Val(c.recordsInDisk)
       IN [rowIdx \in DOMAIN l.offsets[chkIdx] |-> ListInDisk_GetRow(l, <<chkIdx, rowIdx>>)]

\* RowContainer.GetRow: the error (if any) and the row.
GetRow(c, ptr) ==
  IF alreadySpilled(c)
  THEN IF c.spillError THEN [err |-> "spillError", row |-> <<>>]
       ELSE [err |-> "nil", row |-> ListInDisk_GetRow(Val(c.recordsInDisk), ptr)]
  ELSE [err |-> "nil", row |-> List_GetRow(c, ptr)]

\* RowContainer.Add that does not look at the stored spill error.
RowContainer_Add_IgnoreError(c, chunk, fail) ==
  IF alreadySpilled(c)
  THEN IF fail THEN [c |-> c, err |-> "ioError"]
       ELSE [c |-> [c EXCEPT !.recordsInDisk = Some(ListInDisk_Add(Val(@), chunk)),
                             !.diskBytes = @ + MemoryUsage(chunk)],
             err |-> "nil"]
  ELSE [c |-> List_Add(c, chunk), err |-> "nil"]

\* RowContainer.Add; fail says whether the disk write of this call fails.
RowContainer_Add(c, chunk, fail) ==
  IF alreadySpilled(c)
  THEN IF c.spillError THEN [c |-> c, err |-> "spillError"]
       ELSE IF fail THEN [c |-> c, err |-> "ioError"]
       ELSE [c |-> [c EXCEPT !.recordsInDisk = Some(ListInDisk_Add(Val(@), chunk)),
                             !.diskBytes = @ + MemoryUsage(chunk)],
             err |-> "nil"]
  ELSE [c |-> List_Add(c, chunk), err |-> "nil"]

RowContainer_AppendRow(c, row) ==
  IF alreadySpilled(c) THEN [c |-> c, ptr |-> <<0, 0>>, err |-> "ListInDisk don't support AppendRow"]
  ELSE LET r == List_AppendRow(c, row) IN [c |-> r.c, ptr |-> r.ptr, err |-> "nil"]

\* The loop of SpillToDisk from chunk i on; the write of chunk failAt fails.
RECURSIVE spillChunksFrom(_, _, _)
spillChunksFrom(c, i, failAt) ==
  IF i > Len(c.records) THEN List_Clear(c)
  ELSE IF i = failAt THEN [c EXCEPT !.spillError = TRUE]
  ELSE spillChunksFrom(
         [c EXCEPT !.recordsInDisk = Some(ListInDisk_Add(Val(@), c.records[i])),
                   !.diskBytes = @ + MemoryUsage(c.records[i])],
         i + 1, failAt)

\* SpillToDisk whose loop starts at the second chunk.
SpillToDisk_SkipFirst(c, failAt) ==
  IF alreadySpilled(c) THEN c
  ELSE spillChunksFrom([c EXCEPT !.recordsInDisk = Some(NewListInDisk)], 2, failAt)

\* RowContainer.SpillToDisk; failAt = 0 when no write fails.
SpillToDisk(c, failAt) ==
  IF alreadySpilled(c) THEN c
  ELSE spillChunksFrom([c EXCEPT !.recordsInDisk = Some(NewListInDisk)], 1, failAt)

\* Reset that closes the disk list without dropping it.
Reset_KeepDisk(c, fail) ==
  IF alreadySpilled(c) THEN ListInDisk_Close(c, fail)
  ELSE [c |-> List_Reset(c), err |-> "nil"]

\* RowContainer.Reset
Reset(c, fail) ==
  IF alreadySpilled(c)
  THEN LET r == ListInDisk_Close(c, fail)
       IN [c |-> [r.c EXCEPT !.recordsInDisk = Nil], err |-> r.err]
  ELSE [c |-> List_Reset(c), err |-> "nil"]

\* RowContainer.Close, the part before records.Clear: close and drop the
\* disk list of a spilled container.  Close takes no lock, so other
\* goroutines may run between this part and the next.
RowContainer_Close_Disk(c, fail) ==
  IF alreadySpilled(c)
  THEN LET r == ListInDisk_Close(c, fail)
       IN [c |-> [r.c EXCEPT !.recordsInDisk = Nil], err |-> r.err]
  ELSE [c |-> c, err |-> "nil"]

\* RowContainer.Close, the last statement: records.Clear.
RowContainer_Close_Clear(c) == List_Clear(c)

\* ---------------------------------------------------------------- chunk.SortedRowContainer
\* The RowPtrs of all rows, chunk by chunk, in insertion order.
RECURSIVE scanPointers(_, _)
scanPointers(c, chkIdx) ==
  IF chkIdx > NumChunks(c) THEN <<>>
  ELSE [rowIdx \in 1..Len(GetChunk(c, chkIdx)) |-> <<chkIdx, rowIdx>>]
       \o scanPointers(c, chkIdx + 1)

\* keyColumnsLess as a relation over the pointers ps (it reads c.m.records).
keyColumnsLessRel(c, ps) ==
  {pq \in ps \X ps : SortedRowContainer_lessRow(List_GetRow(c, pq[1]), List_GetRow(c, pq[2]))}

\* InitPointersAndSort without the sort.
InitPointersAndSort_NoSort(c) ==
  IF ~IsNil(c.rowPtrs) THEN {c} ELSE {[c EXCEPT !.rowPtrs = Some(scanPointers(c, 1))]}

\* SortedRowContainer.InitPointersAndSort: the containers it may leave.
InitPointersAndSort(c) ==
  IF ~IsNil(c.rowPtrs) THEN {c}
  ELSE LET ptrs == scanPointers(c, 1)
       IN {[c EXCEPT !.rowPtrs = Some(s)] : s \in sortSlice(ptrs, keyColumnsLessRel(c, Range(ptrs)))}

\* SortedRowContainer.InitPointers: the pointers in insertion order.
InitPointers(c) == [c EXCEPT !.rowPtrs = Some(scanPointers(c, 1))]

\* SortedRowContainer.Add without the check of rowPtrs.
SortedRowContainer_Add_NoCheck(c, chunk, fail) == RowContainer_Add(c, chunk, fail)

SortedRowContainer_Add(c, chunk, fail) ==
  IF ~IsNil(c.rowPtrs) THEN [c |-> c, err |-> "ErrInsertToPartitionFailed"]
  ELSE RowContainer_Add(c, chunk, fail)

GetRowByIdx(c, idx) == GetRow(c, Val(c.rowPtrs)[idx + 1])

cap(rowPtrs) == IF IsNil(rowPtrs) THEN 0 ELSE Len(Val(rowPtrs))

\* SortedRowContainer.Close, the first statement: the debit of the pointers.
SortedRowContainer_Close_Debit(c) == [c EXCEPT !.memBytes = @ - PtrBytes * cap(c.rowPtrs)]

\* ---------------------------------------------------------------- SortExec
\* The key configurations examined: ORDER BY c1 DESC; ORDER BY c1, c2 DESC.
KeyConfigs ==
  {[cols |-> <<1>>, desc |-> <<TRUE>>],
   [cols |-> <<1, 2>>, desc |-> <<FALSE, TRUE>>]}

\* Chunk.IsFull
IsFull(chunk) == Len(chunk) >= MaxChunkSize

\* The disk-write outcomes still allowed: no fault, or one more fault.
FaultChoices == IF ioFaults < MaxIOFaults THEN BOOLEAN ELSE {FALSE}

NoOp == [op |-> "none", err |-> "nil", n |-> 0]

\* The record of a call and its result; n counts the calls of a container driver.
Op(name, e, k) == [op |-> name, err |-> e, n |-> k]

SortInit ==
  /\ kind = "SortExec"
  /\ \E k \in KeyConfigs : keyColumns = k.cols /\ ByItemsDesc = k.desc
  /\ oomUseTmpStorage \in BOOLEAN
  /\ input \in SeqsUpTo(Rows, MaxRows)
  /\ child = input
  /\ conts = <<>>
  /\ rowChunks = 0
  /\ partitionList = <<>>
  /\ spillAction = 0
  /\ fallbackAction = FALSE
  /\ tasks = EmptyBag
  /\ pc = "idle"
  /\ chk = <<>>
  /\ chkI = 0
  /\ req = <<>>
  /\ out = <<>>
  /\ Idx = 0
  /\ fetched = FALSE
  /\ multiWayMerge = Nil
  /\ limit = [Offset |-> 0, Count |-> 0]
  /\ totalLimit = 0
  /\ memTracker = 0
  /\ ioFaults = 0
  /\ nFallback = 0
  /\ bytesLimit = -1
  /\ panicOnExceed = Nil /\ mutex = Nil /\ at = Nil
  /\ lastOp = NoOp

\* SortExec.Next whose prologue installs the spill action whatever the
\* configuration says.
SortExec_Next_AlwaysInstall ==
  /\ kind = "SortExec" /\ pc = "idle"
  /\ req' = <<>>
  /\ IF ~fetched
     THEN /\ conts' = Append(conts, NewRowContainer)
          /\ rowChunks' = Len(conts) + 1
          /\ spillAction' = Len(conts) + 1
          /\ pc' = "fetch"
     ELSE /\ pc' = "emit"
          /\ UNCHANGED <<conts, rowChunks, spillAction>>
  /\ lastOp' = NoOp
  /\ UNCHANGED <<cfgVars, child, partitionList, tasks, chk, chkI, out, Idx, fetched,
                 multiWayMerge, totalLimit, memTracker, ioFaults, nFallback>>

\* SortExec.Next, entry: req.Reset and, on the first call, the prologue of
\* fetchRowChunks (new container, spill action installed when configured).
SortExec_Next ==
  /\ kind = "SortExec" /\ pc = "idle"
  /\ req' = <<>>
  /\ IF ~fetched
     THEN /\ conts' = Append(conts, NewRowContainer)
          /\ rowChunks' = Len(conts) + 1
          /\ spillAction' = IF oomUseTmpStorage THEN Len(conts) + 1 ELSE 0
          /\ pc' = "fetch"
     ELSE /\ pc' = "emit"
          /\ UNCHANGED <<conts, rowChunks, spillAction>>
  /\ lastOp' = NoOp
  /\ UNCHANGED <<cfgVars, child, partitionList, tasks, chk, chkI, out, Idx, fetched,
                 multiWayMerge, totalLimit, memTracker, ioFaults, nFallback>>

\* fetchRowChunks, one iteration with a non-empty child chunk: Add it.
fetchRowChunks_Add ==
  /\ kind = "SortExec" /\ pc = "fetch" /\ child # <<>>
  /\ \E n \in 1..Min(MaxChunkSize, Len(child)), fail \in FaultChoices :
       LET chunk == SubSeq(child, 1, n)
           r == SortedRowContainer_Add(conts[rowChunks], chunk, fail)
       IN /\ child' = SubSeqFrom(child, n + 1)
          /\ conts' = [conts EXCEPT ![rowChunks] = r.c]
          /\ ioFaults' = IF r.err = "ioError" THEN ioFaults + 1 ELSE ioFaults
          /\ IF r.err = "nil"
             THEN pc' = "fetch" /\ chk' = <<>> /\ lastOp' = lastOp
             ELSE IF r.err = "ErrInsertToPartitionFailed"
             THEN pc' = "rollover" /\ chk' = chunk /\ lastOp' = lastOp
             ELSE pc' = "error" /\ chk' = <<>> /\ lastOp' = Op("Next", r.err, 0)
  /\ UNCHANGED <<cfgVars, rowChunks, partitionList, spillAction, tasks, chkI, req, out, Idx,
                 fetched, multiWayMerge, totalLimit, memTracker, nFallback>>

\* The roll-over that leaves the spill action on the container it had.
fetchRowChunks_RollOver_NoReset ==
  /\ kind = "SortExec" /\ pc = "rollover"
  /\ conts' = Append([conts EXCEPT ![rowChunks].memBytes =
                        @ + PtrBytes * cap(conts[rowChunks].rowPtrs)],
                     NewRowContainer)
  /\ partitionList' = Append(partitionList, rowChunks)
  /\ rowChunks' = Len(conts) + 1
  /\ IF spillAction = 0
     THEN pc' = "panic" /\ spillAction' = 0
     ELSE pc' = "retry" /\ spillAction' = spillAction
  /\ UNCHANGED <<cfgVars, child, tasks, chk, chkI, req, out, Idx, fetched, multiWayMerge,
                 totalLimit, memTracker, ioFaults, nFallback, lastOp>>

\* fetchRowChunks after the already-sorted error: charge the pointers, move
\* the container to the partition list, allocate its successor and re-point
\* the spill action (ResetRowContainer).
fetchRowChunks_RollOver ==
  /\ kind = "SortExec" /\ pc = "rollover"
  /\ conts' = Append([conts EXCEPT ![rowChunks].memBytes =
                        @ + PtrBytes * cap(conts[rowChunks].rowPtrs)],
                     NewRowContainer)
  /\ partitionList' = Append(partitionList, rowChunks)
  /\ rowChunks' = Len(conts) + 1
  /\ IF spillAction = 0
     THEN pc' = "panic" /\ spillAction' = 0
     ELSE pc' = "retry" /\ spillAction' = Len(conts) + 1
  /\ UNCHANGED <<cfgVars, child, tasks, chk, chkI, req, out, Idx, fetched, multiWayMerge,
                 totalLimit, memTracker, ioFaults, nFallback, lastOp>>

\* The roll-over without the retry: the rejected chunk is dropped.
fetchRowChunks_Retry_Drop ==
  /\ kind = "SortExec" /\ pc = "retry"
  /\ chk' = <<>>
  /\ pc' = "fetch"
  /\ UNCHANGED <<cfgVars, child, conts, rowChunks, partitionList, spillAction, tasks, chkI, req,
                 out, Idx, fetched, multiWayMerge, totalLimit, memTracker, ioFaults, nFallback,
                 lastOp>>

\* fetchRowChunks: the Add of the rejected chunk, retried on the successor.
fetchRowChunks_Retry ==
  /\ kind = "SortExec" /\ pc = "retry"
  /\ \E fail \in FaultChoices :
       LET r == SortedRowContainer_Add(conts[rowChunks], chk, fail)
       IN /\ conts' = [conts EXCEPT ![rowChunks] = r.c]
          /\ ioFaults' = IF r.err = "ioError" THEN ioFaults + 1 ELSE ioFaults
          /\ chk' = <<>>
          /\ IF r.err = "nil"
             THEN pc' = "fetch" /\ lastOp' = lastOp
             ELSE pc' = "error" /\ lastOp' = Op("Next", r.err, 0)
  /\ UNCHANGED <<cfgVars, child, rowChunks, partitionList, spillAction, tasks, chkI, req, out,
                 Idx, fetched, multiWayMerge, totalLimit, memTracker, nFallback>>

\* fetchRowChunks when the child returns an empty chunk: sort the last
\* container if it holds rows and make it the last partition.
fetchRowChunks_End ==
  /\ kind = "SortExec" /\ pc = "fetch" /\ child = <<>>
  /\ IF NumRow(conts[rowChunks]) > 0
     THEN \E c \in InitPointersAndSort(conts[rowChunks]) :
            /\ conts' = [conts EXCEPT ![rowChunks] =
                           [c EXCEPT !.memBytes = @ + PtrBytes * cap(c.rowPtrs)]]
            /\ partitionList' = Append(partitionList, rowChunks)
     ELSE UNCHANGED <<conts, partitionList>>
  /\ fetched' = TRUE
  /\ pc' = "emit"
  /\ UNCHANGED <<cfgVars, child, rowChunks, spillAction, tasks, chk, chkI, req, out, Idx,
                 multiWayMerge, totalLimit, memTracker, ioFaults, nFallback, lastOp>>

\* SortExec.Next with one partition: the copy loop, from e.Idx = idx on.
RECURSIVE singlePartitionLoop(_, _, _)
singlePartitionLoop(part, idx, chunk) ==
  IF IsFull(chunk) \/ idx >= NumRow(part) THEN [req |-> chunk, Idx |-> idx, err |-> "nil"]
  ELSE LET r == GetRowByIdx(part, idx)
       IN IF r.err # "nil" THEN [req |-> chunk, Idx |-> idx, err |-> r.err]
          ELSE singlePartitionLoop(part, idx + 1, Append(chunk, r.row))

\* The first rows of the partitions i.., as heap elements.
RECURSIVE firstElements(_)
firstElements(i) ==
  IF i > Len(partitionList) THEN <<>>
  ELSE <<[row |-> GetRowByIdx(conts[partitionList[i]], 0).row, partitionID |-> i,
          consumed |-> 0]>> \o firstElements(i + 1)

\* externalSorting, first call: the heap over the partitions' first rows.
externalSorting_Init ==
  IF \E i \in DOMAIN partitionList : cap(conts[partitionList[i]].rowPtrs) = 0
  THEN [elements |-> <<>>, err |-> "panic"]
  ELSE IF \E i \in DOMAIN partitionList : GetRowByIdx(conts[partitionList[i]], 0).err # "nil"
  THEN [elements |-> <<>>, err |-> "spillError"]
  ELSE [elements |-> heapInit("min", firstElements(1)), err |-> "nil"]

\* externalSorting: the merge loop.
RECURSIVE externalSorting_Loop(_, _)
externalSorting_Loop(elements, chunk) ==
  IF IsFull(chunk) \/ Len(elements) = 0
  THEN [elements |-> elements, req |-> chunk, err |-> "nil"]
  ELSE LET partitionPtr == elements[1]
           consumed == partitionPtr.consumed + 1
           part == conts[partitionList[partitionPtr.partitionID]]
           chunk1 == Append(chunk, partitionPtr.row)
       IN IF consumed >= NumRow(part)
          THEN externalSorting_Loop(heapRemove("min", elements, 0), chunk1)
          ELSE LET r == GetRowByIdx(part, consumed)
               IN IF r.err # "nil"
                  THEN [elements |-> elements, req |-> chunk1, err |-> r.err]
                  ELSE externalSorting_Loop(
                         heapFix("min",
                           [elements EXCEPT ![1] =
                              [row |-> r.row, partitionID |-> partitionPtr.partitionID,
                               consumed |-> consumed]], 0),
                         chunk1)

\* externalSorting(req)
externalSorting ==
  LET init == IF IsNil(multiWayMerge) THEN externalSorting_Init
              ELSE [elements |-> Val(multiWayMerge), err |-> "nil"]
  IN IF init.err # "nil"
     THEN [multiWayMerge |-> multiWayMerge, req |-> <<>>, err |-> init.err]
     ELSE LET l == externalSorting_Loop(init.elements, <<>>)
          IN [multiWayMerge |-> Some(l.elements), req |-> l.req, err |-> l.err]

\* What a Next call does after the fetch phase (lines 123-140).
SortExec_output ==
  IF Len(partitionList) = 0
  THEN [multiWayMerge |-> multiWayMerge, req |-> <<>>, Idx |-> Idx, err |-> "nil"]
  ELSE IF Len(partitionList) > 1
  THEN LET m == externalSorting
       IN [multiWayMerge |-> m.multiWayMerge, req |-> m.req, Idx |-> Idx, err |-> m.err]
  ELSE LET l == singlePartitionLoop(conts[partitionList[1]], Idx, <<>>)
       IN [multiWayMerge |-> multiWayMerge, req |-> l.req, Idx |-> l.Idx, err |-> l.err]

\* SortExec.Next after the fetch phase: fill req and return.  An empty req
\* returned with a nil error is the end of the stream.
Next_Output ==
  /\ kind = "SortExec" /\ pc = "emit"
  /\ LET o == SortExec_output
     IN /\ req' = o.req
        /\ out' = out \o o.req
        /\ Idx' = o.Idx
        /\ multiWayMerge' = o.multiWayMerge
        /\ lastOp' = Op("Next", o.err, 0)
        /\ pc' = IF o.err = "panic" THEN "panic"
                 ELSE IF o.err # "nil" THEN "error"
                 ELSE IF o.req = <<>> THEN "done" ELSE "idle"
  /\ UNCHANGED <<cfgVars, child, conts, rowChunks, partitionList, spillAction, tasks, chk, chkI,
                 fetched, totalLimit, memTracker, ioFaults, nFallback>>

\* ---------------------------------------------------------------- SortAndSpillDiskAction
\* SortAndSpillDiskAction.Action without the test of the tracker being at 0.
SortAndSpillDiskAction_Action_NoZeroTest ==
  /\ kind \in {"SortExec", "SortedRowContainer"} /\ spillAction # 0
  /\ LET c == conts[spillAction]
     IN IF alreadySpilled(c)
        THEN /\ fallbackAction => nFallback < MaxFallback
             /\ nFallback' = IF fallbackAction THEN nFallback + 1 ELSE nFallback
             /\ UNCHANGED tasks
        ELSE /\ BagCardinality(tasks) < MaxTasks
             /\ tasks' = tasks (+) SetToBag({[c |-> spillAction, pc |-> "sort"]})
             /\ UNCHANGED nFallback
  /\ UNCHANGED <<cfgVars, child, conts, rowChunks, partitionList, spillAction, pc, chk, chkI,
                 req, out, Idx, fetched, multiWayMerge, totalLimit, memTracker, ioFaults, lastOp>>

\* SortAndSpillDiskAction.Action: delegate to the fallback when the container
\* is spilled or its tracker is at 0, otherwise start sortAndSpillToDisk.
SortAndSpillDiskAction_Action ==
  /\ kind \in {"SortExec", "SortedRowContainer"} /\ spillAction # 0
  /\ LET c == conts[spillAction]
     IN IF alreadySpilled(c) \/ c.memBytes = 0
        THEN /\ fallbackAction => nFallback < MaxFallback
             /\ nFallback' = IF fallbackAction THEN nFallback + 1 ELSE nFallback
             /\ UNCHANGED tasks
        ELSE /\ BagCardinality(tasks) < MaxTasks
             /\ tasks' = tasks (+) SetToBag({[c |-> spillAction, pc |-> "sort"]})
             /\ UNCHANGED nFallback
  /\ UNCHANGED <<cfgVars, child, conts, rowChunks, partitionList, spillAction, pc, chk, chkI,
                 req, out, Idx, fetched, multiWayMerge, totalLimit, memTracker, ioFaults, lastOp>>

\* sortAndSpillToDisk, first half: InitPointersAndSort.
task_InitPointersAndSort ==
  \E t \in BagToSet(tasks) :
    /\ t.pc = "sort"
    /\ \E c \in InitPointersAndSort(conts[t.c]) :
         conts' = [conts EXCEPT ![t.c] = c]
    /\ tasks' = (tasks (-) SetToBag({t})) (+) SetToBag({[t EXCEPT !.pc = "spill"]})
    /\ UNCHANGED <<cfgVars, child, rowChunks, partitionList, spillAction, pc, chk, chkI, req,
                   out, Idx, fetched, multiWayMerge, totalLimit, memTracker, ioFaults, nFallback, lastOp>>

\* The chunk whose disk write may fail in a SpillToDisk of c (0: none).
SpillFaults(c) ==
  IF alreadySpilled(c) \/ ioFaults >= MaxIOFaults THEN {0} ELSE 0..Len(c.records)

\* sortAndSpillToDisk, second half: RowContainer.SpillToDisk; the goroutine ends.
task_SpillToDisk ==
  \E t \in BagToSet(tasks) :
    /\ t.pc = "spill"
    /\ \E failAt \in SpillFaults(conts[t.c]) :
         /\ conts' = [conts EXCEPT ![t.c] = SpillToDisk(@, failAt)]
         /\ ioFaults' = IF failAt = 0 THEN ioFaults ELSE ioFaults + 1
    /\ tasks' = tasks (-) SetToBag({t})
    /\ UNCHANGED <<cfgVars, child, rowChunks, partitionList, spillAction, pc, chk, chkI, req,
                   out, Idx, fetched, multiWayMerge, totalLimit, memTracker, nFallback, lastOp>>

SortNext ==
  \/ SortExec_Next
  \/ fetchRowChunks_Add
  \/ fetchRowChunks_RollOver
  \/ fetchRowChunks_Retry
  \/ fetchRowChunks_End
  \/ Next_Output
  \/ SortAndSpillDiskAction_Action
  \/ task_InitPointersAndSort
  \/ task_SpillToDisk

SpecSort == SortInit /\ [][SortNext]_vars

\* ---------------------------------------------------------------- TopNExec
ScenarioS3 == <<<<3, 0>>, <<1, 0>>, <<4, 0>>, <<1, 0>>, <<5, 0>>, <<9, 0>>, <<2, 0>>, <<6, 0>>>>
ScenarioS4 == [i \in 1..100 |-> <<i, 0>>]

TopNInit ==
  /\ kind = "TopNExec"
  /\ \/ /\ \E k \in KeyConfigs : keyColumns = k.cols /\ ByItemsDesc = k.desc
        /\ input \in SeqsUpTo(Rows, MaxTopNRows)
        /\ limit \in [Offset : 0..MaxLimit, Count : 0..MaxLimit]
     \/ /\ keyColumns = <<1>> /\ ByItemsDesc = <<TRUE>>
        /\ input = ScenarioS3
        /\ limit = [Offset |-> 1, Count |-> 3]
     \/ /\ keyColumns = <<1>> /\ ByItemsDesc = <<TRUE>>
        /\ input = ScenarioS4
        /\ limit = [Offset |-> 0, Count |-> 3]
  /\ oomUseTmpStorage = FALSE
  /\ child = input
  /\ conts = <<>>
  /\ rowChunks = 0
  /\ partitionList = <<>>
  /\ spillAction = 0
  /\ fallbackAction = FALSE
  /\ tasks = EmptyBag
  /\ pc = "idle"
  /\ chk = <<>>
  /\ chkI = 0
  /\ req = <<>>
  /\ out = <<>>
  /\ Idx = 0
  /\ fetched = FALSE
  /\ multiWayMerge = Nil
  /\ totalLimit = 0
  /\ memTracker = 0
  /\ ioFaults = 0
  /\ nFallback = 0
  /\ bytesLimit = -1
  /\ panicOnExceed = Nil /\ mutex = Nil /\ at = Nil
  /\ lastOp = NoOp

\* The row pointers as heap elements of the container c, and back.
ptrElements(c, ptrs) == [i \in DOMAIN ptrs |-> [row |-> GetRow(c, ptrs[i]).row, ptr |-> ptrs[i]]]
elementPtrs(h) == [i \in DOMAIN h |-> h[i].ptr]

\* TopNExec.Next, entry: req.Reset and, on the first call, totalLimit, Idx
\* and the prologue of loadChunksUntilTotalLimit (a new container).
TopNExec_Next ==
  /\ kind = "TopNExec" /\ pc = "idle"
  /\ req' = <<>>
  /\ IF ~fetched
     THEN /\ totalLimit' = limit.Offset + limit.Count
          /\ Idx' = limit.Offset
          /\ conts' = <<NewRowContainer>>
          /\ rowChunks' = 1
          /\ pc' = "load"
     ELSE /\ pc' = "emit"
          /\ UNCHANGED <<totalLimit, Idx, conts, rowChunks>>
  /\ lastOp' = NoOp
  /\ UNCHANGED <<cfgVars, child, partitionList, spillAction, tasks, chk, chkI, out, fetched,
                 multiWayMerge, memTracker, ioFaults, nFallback>>

\* loadChunksUntilTotalLimit, one iteration with a non-empty child chunk.
loadChunksUntilTotalLimit_Add ==
  /\ kind = "TopNExec" /\ pc = "load"
  /\ NumRow(conts[rowChunks]) < totalLimit /\ child # <<>>
  /\ \E n \in 1..Min(MaxChunkSize, Len(child)) :
       LET r == SortedRowContainer_Add(conts[rowChunks], SubSeq(child, 1, n), FALSE)
       IN /\ child' = SubSeqFrom(child, n + 1)
          /\ conts' = [conts EXCEPT ![rowChunks] = r.c]
          /\ IF r.err = "nil" THEN UNCHANGED <<pc, lastOp>>
             ELSE pc' = "error" /\ lastOp' = Op("Next", r.err, 0)
  /\ UNCHANGED <<cfgVars, rowChunks, partitionList, spillAction, tasks, chk, chkI, req, out,
                 Idx, fetched, multiWayMerge, totalLimit, memTracker, ioFaults, nFallback>>

\* loadChunksUntilTotalLimit, end of the loop: InitPointers.
loadChunksUntilTotalLimit_End ==
  /\ kind = "TopNExec" /\ pc = "load"
  /\ (NumRow(conts[rowChunks]) >= totalLimit \/ child = <<>>)
  /\ conts' = [conts EXCEPT ![rowChunks] = InitPointers(@)]
  /\ pc' = "heap"
  /\ UNCHANGED <<cfgVars, child, rowChunks, partitionList, spillAction, tasks, chk, chkI, req,
                 out, Idx, fetched, multiWayMerge, totalLimit, memTracker, ioFaults, nFallback,
                 lastOp>>

\* executeTopN without the pops.
popToLimit_KeepAll(h, n) == h

\* executeTopN: pop the greatest rows until at most n pointers are left.
RECURSIVE popToLimit(_, _)
popToLimit(h, n) == IF Len(h) > n THEN popToLimit(heapPop("max", h), n) ELSE h

\* executeTopN, before the loop: heap.Init and the pops down to totalLimit.
executeTopN_Init ==
  /\ kind = "TopNExec" /\ pc = "heap"
  /\ LET c == conts[rowChunks]
         h == heapInit("max", ptrElements(c, Val(c.rowPtrs)))
     IN conts' = [conts EXCEPT ![rowChunks].rowPtrs = Some(elementPtrs(popToLimit(h, totalLimit)))]
  /\ pc' = "stream"
  /\ UNCHANGED <<cfgVars, child, rowChunks, partitionList, spillAction, tasks, chk, chkI, req,
                 out, Idx, fetched, multiWayMerge, totalLimit, memTracker, ioFaults, nFallback,
                 lastOp>>

\* executeTopN, top of the loop with a non-empty child chunk.
executeTopN_Fetch ==
  /\ kind = "TopNExec" /\ pc \in {"stream", "checked"} /\ child # <<>>
  /\ \E n \in 1..Min(MaxChunkSize, Len(child)) :
       /\ chk' = SubSeq(child, 1, n)
       /\ child' = SubSeqFrom(child, n + 1)
  /\ chkI' = 0
  /\ pc' = "process"
  /\ UNCHANGED <<cfgVars, conts, rowChunks, partitionList, spillAction, tasks, req, out, Idx,
                 fetched, multiWayMerge, totalLimit, memTracker, ioFaults, nFallback, lastOp>>

\* processChildChk's iteration without the heap.Fix after the replacement.
processChildChk_Row_NoFix(c, next) ==
  LET ptrs == Val(c.rowPtrs)
      heapMax == GetRow(c, ptrs[1])
  IN IF greaterRow(heapMax.row, next)
     THEN LET a == RowContainer_AppendRow(c, next)
          IN [c |-> [a.c EXCEPT !.rowPtrs = Some([ptrs EXCEPT ![1] = a.ptr])], err |-> "nil"]
     ELSE [c |-> c, err |-> "nil"]

\* processChildChk, one iteration: a child row that sorts before the heap's
\* root is appended to the container and replaces the root.
processChildChk_Row(c, next) ==
  LET ptrs == Val(c.rowPtrs)
      heapMax == GetRow(c, ptrs[1])
  IN IF heapMax.err # "nil" THEN [c |-> c, err |-> heapMax.err]
     ELSE IF greaterRow(heapMax.row, next)
     THEN LET a == RowContainer_AppendRow(c, next)
          IN IF a.err # "nil" THEN [c |-> c, err |-> a.err]
             ELSE [c |-> [a.c EXCEPT !.rowPtrs =
                            Some(elementPtrs(heapFix("max",
                                   ptrElements(a.c, [ptrs EXCEPT ![1] = a.ptr]), 0)))],
                   err |-> "nil"]
     ELSE [c |-> c, err |-> "nil"]

processChildChk ==
  /\ kind = "TopNExec" /\ pc = "process" /\ chkI < Len(chk)
  /\ IF cap(conts[rowChunks].rowPtrs) = 0
     THEN pc' = "panic" /\ UNCHANGED <<conts, chkI, lastOp>>
     ELSE LET r == processChildChk_Row(conts[rowChunks], chk[chkI + 1])
          IN /\ conts' = [conts EXCEPT ![rowChunks] = r.c]
             /\ IF r.err = "nil" THEN chkI' = chkI + 1 /\ UNCHANGED <<pc, lastOp>>
                ELSE pc' = "error" /\ lastOp' = Op("Next", r.err, 0) /\ UNCHANGED chkI
  /\ UNCHANGED <<cfgVars, child, rowChunks, partitionList, spillAction, tasks, chk, req, out,
                 Idx, fetched, multiWayMerge, totalLimit, memTracker, ioFaults, nFallback>>

\* doCompaction's loop: copy the live rows i.. of c into newc.
RECURSIVE compactFrom(_, _, _, _)
compactFrom(c, newc, newRowPtrs, i) ==
  IF i > Len(Val(c.rowPtrs)) THEN [c |-> newc, ptrs |-> newRowPtrs]
  ELSE LET a == RowContainer_AppendRow(newc, GetRow(c, Val(c.rowPtrs)[i]).row)
       IN compactFrom(c, a.c, Append(newRowPtrs, a.ptr), i + 1)

\* A doCompaction that keeps the old container.
doCompaction_KeepOld(c) == [c |-> c, delta |-> 0]

\* doCompaction: the new container with its pointers, and the change of
\* e.memTracker.  The first Consume reads the pointers of the container
\* already swapped in, whose pointer slice is still nil.
doCompaction(c) ==
  LET r == compactFrom(c, NewRowContainer, <<>>, 1)
  IN [c |-> [r.c EXCEPT !.rowPtrs = Some(r.ptrs)],
      delta |-> (-PtrBytes * cap(r.c.rowPtrs)) + PtrBytes * Len(r.ptrs)]

\* A compaction check that never asks for a compaction.
needCompaction_Never(c) == FALSE

needCompaction(c) == NumRow(c) > Len(Val(c.rowPtrs)) * topNCompactionFactor

\* executeTopN, after processChildChk: compact when the container holds
\* more than topNCompactionFactor rows per live pointer.
executeTopN_Compact ==
  /\ kind = "TopNExec" /\ pc = "process" /\ chkI >= Len(chk)
  /\ IF needCompaction(conts[rowChunks])
     THEN LET d == doCompaction(conts[rowChunks])
          IN /\ conts' = [conts EXCEPT ![rowChunks] = d.c]
             /\ memTracker' = memTracker + d.delta
     ELSE UNCHANGED <<conts, memTracker>>
  /\ chk' = <<>>
  /\ chkI' = 0
  /\ pc' = "checked"
  /\ UNCHANGED <<cfgVars, child, rowChunks, partitionList, spillAction, tasks, req, out, Idx,
                 fetched, multiWayMerge, totalLimit, ioFaults, nFallback, lastOp>>

\* SortExec.keyColumnsLess as a relation over the container's pointers.
SortExec_keyColumnsLessRel(c, ps) ==
  {pq \in ps \X ps : lessRow(List_GetRow(c, pq[1]), List_GetRow(c, pq[2]))}

\* executeTopN, the child is exhausted: the final sort of the pointers.
executeTopN_Sort ==
  /\ kind = "TopNExec" /\ pc \in {"stream", "checked"} /\ child = <<>>
  /\ LET c == conts[rowChunks]
         ptrs == Val(c.rowPtrs)
     IN \E s \in sortSlice(ptrs, SortExec_keyColumnsLessRel(c, Range(ptrs))) :
          conts' = [conts EXCEPT ![rowChunks].rowPtrs = Some(s)]
  /\ fetched' = TRUE
  /\ pc' = "emit"
  /\ UNCHANGED <<cfgVars, child, rowChunks, partitionList, spillAction, tasks, chk, chkI, req,
                 out, Idx, multiWayMerge, totalLimit, memTracker, ioFaults, nFallback, lastOp>>

\* TopNExec.Next, the copy loop from e.Idx = idx on.
RECURSIVE topNOutputLoop(_, _, _)
topNOutputLoop(c, idx, chunk) ==
  IF IsFull(chunk) \/ idx >= Len(Val(c.rowPtrs)) THEN [req |-> chunk, Idx |-> idx, err |-> "nil"]
  ELSE LET r == GetRow(c, Val(c.rowPtrs)[idx + 1])
       IN IF r.err # "nil" THEN [req |-> chunk, Idx |-> idx, err |-> r.err]
          ELSE topNOutputLoop(c, idx + 1, Append(chunk, r.row))

\* TopNExec.Next after executeTopN: fill req and return.
TopN_Output ==
  /\ kind = "TopNExec" /\ pc = "emit"
  /\ LET o == topNOutputLoop(conts[rowChunks], Idx, <<>>)
     IN /\ req' = o.req
        /\ out' = out \o o.req
        /\ Idx' = o.Idx
        /\ lastOp' = Op("Next", o.err, 0)
        /\ pc' = IF o.err # "nil" THEN "error"
                 ELSE IF o.req = <<>> THEN "done" ELSE "idle"
  /\ UNCHANGED <<cfgVars, child, conts, rowChunks, partitionList, spillAction, tasks, chk, chkI,
                 fetched, multiWayMerge, totalLimit, memTracker, ioFaults, nFallback>>

TopNNext ==
  \/ TopNExec_Next
  \/ loadChunksUntilTotalLimit_Add
  \/ loadChunksUntilTotalLimit_End
  \/ executeTopN_Init
  \/ executeTopN_Fetch
  \/ processChildChk
  \/ executeTopN_Compact
  \/ executeTopN_Sort
  \/ TopN_Output

SpecTopN == TopNInit /\ [][TopNNext]_vars

\* ---------------------------------------------------------------- a container and its spill action
\* One container (conts[1]) with its spill action registered, driven through
\* its public methods the way the package's tests drive it: Add, and either
\* SpillToDisk (RowContainer) or InitPointersAndSort (SortedRowContainer);
\* the memory tracker may invoke the action at any time.
ContInit ==
  /\ kind \in {"RowContainer", "SortedRowContainer"}
  /\ \E k \in KeyConfigs : keyColumns = k.cols /\ ByItemsDesc = k.desc
  /\ oomUseTmpStorage = TRUE
  /\ input = <<>>
  /\ child = <<>>
  /\ conts = <<NewRowContainer>>
  /\ rowChunks = 1
  /\ partitionList = <<>>
  /\ spillAction = 1
  /\ fallbackAction \in BOOLEAN
  /\ tasks = EmptyBag
  /\ pc = "idle"
  /\ chk = <<>>
  /\ chkI = 0
  /\ req = <<>>
  /\ out = <<>>
  /\ Idx = 0
  /\ fetched = FALSE
  /\ multiWayMerge = Nil
  /\ limit = [Offset |-> 0, Count |-> 0]
  /\ totalLimit = 0
  /\ memTracker = 0
  /\ ioFaults = 0
  /\ nFallback = 0
  /\ bytesLimit = -1
  /\ panicOnExceed = Nil /\ mutex = Nil /\ at = Nil
  /\ lastOp = NoOp

contFrame == <<cfgVars, child, rowChunks, partitionList, spillAction, pc, chk, chkI, req, out,
               Idx, fetched, multiWayMerge, totalLimit, memTracker>>

\* A call of Add (RowContainer.Add or SortedRowContainer.Add) with a
\* non-empty chunk.
Cont_Add ==
  /\ kind \in {"RowContainer", "SortedRowContainer"} /\ pc = "idle" /\ lastOp.n < MaxOps
  /\ \E chunk \in SeqsUpTo(Rows, MaxChunkSize) \ {<<>>}, fail \in FaultChoices :
       /\ NumRow(conts[1]) + Len(chunk) <= MaxContRows
       /\ LET r == IF kind = "SortedRowContainer"
                   THEN SortedRowContainer_Add(conts[1], chunk, fail)
                   ELSE RowContainer_Add(conts[1], chunk, fail)
          IN /\ conts' = [conts EXCEPT ![1] = r.c]
             /\ ioFaults' = IF r.err = "ioError" THEN ioFaults + 1 ELSE ioFaults
             /\ lastOp' = Op("Add", r.err, lastOp.n + 1)
  /\ UNCHANGED <<contFrame, tasks, nFallback>>

\* A call of SpillToDisk that spills again a container already spilled.
Cont_SpillToDisk_Again ==
  /\ kind = "RowContainer" /\ pc = "idle" /\ lastOp.n < MaxOps
  /\ conts' = [conts EXCEPT ![1] =
                 spillChunksFrom([@ EXCEPT !.recordsInDisk = Some(NewListInDisk)], 1, 0)]
  /\ lastOp' = Op("SpillToDisk", "nil", lastOp.n + 1)
  /\ UNCHANGED <<contFrame, tasks, ioFaults, nFallback>>

\* A direct call of RowContainer.SpillToDisk.
Cont_SpillToDisk ==
  /\ kind = "RowContainer" /\ pc = "idle" /\ lastOp.n < MaxOps
  /\ \E failAt \in SpillFaults(conts[1]) :
       /\ conts' = [conts EXCEPT ![1] = SpillToDisk(@, failAt)]
       /\ ioFaults' = IF failAt = 0 THEN ioFaults ELSE ioFaults + 1
  /\ lastOp' = Op("SpillToDisk", "nil", lastOp.n + 1)
  /\ UNCHANGED <<contFrame, tasks, nFallback>>

\* A direct call of SortedRowContainer.InitPointersAndSort.
Cont_InitPointersAndSort ==
  /\ kind = "SortedRowContainer" /\ pc = "idle" /\ lastOp.n < MaxOps
  /\ \E c \in InitPointersAndSort(conts[1]) : conts' = [conts EXCEPT ![1] = c]
  /\ lastOp' = Op("InitPointersAndSort", "nil", lastOp.n + 1)
  /\ UNCHANGED <<contFrame, tasks, ioFaults, nFallback>>

\* SpillDiskAction.Action: delegate to the fallback when the container is
\* spilled, otherwise start SpillToDisk in a goroutine.
SpillDiskAction_Action ==
  /\ kind = "RowContainer" /\ spillAction # 0
  /\ IF alreadySpilled(conts[spillAction])
     THEN /\ fallbackAction => nFallback < MaxFallback
          /\ nFallback' = IF fallbackAction THEN nFallback + 1 ELSE nFallback
          /\ UNCHANGED tasks
     ELSE /\ BagCardinality(tasks) < MaxTasks
          /\ tasks' = tasks (+) SetToBag({[c |-> spillAction, pc |-> "spill"]})
          /\ UNCHANGED nFallback
  /\ UNCHANGED <<contFrame, conts, ioFaults, lastOp>>

ContNext ==
  \/ Cont_Add
  \/ Cont_SpillToDisk
  \/ Cont_InitPointersAndSort
  \/ SpillDiskAction_Action
  \/ SortAndSpillDiskAction_Action
  \/ task_InitPointersAndSort
  \/ task_SpillToDisk

SpecCont == ContInit /\ [][ContNext]_vars

\* ---------------------------------------------------------------- the life of a container
\* The same container driven through its whole life: besides the operations
\* above its owner may Reset it, may charge the pointer array to its tracker
\* once it is frozen (as fetchRowChunks does), and finally Closes it.  Close
\* holds no lock: its statements are separate steps, and the spill action
\* and its goroutine run between them.
lifeFrame == <<cfgVars, child, rowChunks, partitionList, spillAction, chk, chkI, req, out,
               Idx, fetched, multiWayMerge, totalLimit, memTracker>>

\* The outcomes of closing the disk list of c still allowed.
CloseFaults(c) == IF alreadySpilled(c) THEN FaultChoices ELSE {FALSE}

\* A call of RowContainer.Reset.
Cont_Reset ==
  /\ kind \in {"RowContainer", "SortedRowContainer"} /\ pc = "idle" /\ lastOp.n < MaxOps
  /\ \E fail \in CloseFaults(conts[1]) :
       LET r == Reset(conts[1], fail)
       IN /\ conts' = [conts EXCEPT ![1] = r.c]
          /\ ioFaults' = IF fail THEN ioFaults + 1 ELSE ioFaults
          /\ lastOp' = Op("Reset", r.err, lastOp.n + 1)
  /\ UNCHANGED <<lifeFrame, pc, tasks, nFallback>>

\* The owner's charge of the pointer array, made once it knows the container
\* frozen: after a rejected Add (sort.go:236) or after its own
\* InitPointersAndSort (sort.go:253).  From then on it only reads and closes.
Cont_ChargePointers ==
  /\ kind = "SortedRowContainer" /\ pc = "idle"
  /\ \/ lastOp.op = "Add" /\ lastOp.err = "ErrInsertToPartitionFailed"
     \/ lastOp.op = "InitPointersAndSort"
  /\ conts' = [conts EXCEPT ![1].memBytes = @ + PtrBytes * cap(conts[1].rowPtrs)]
  /\ pc' = "charged"
  /\ UNCHANGED <<lifeFrame, tasks, ioFaults, nFallback, lastOp>>

\* SortedRowContainer.Close, first statement.
Cont_Close_Debit ==
  /\ kind = "SortedRowContainer" /\ pc \in {"idle", "charged"}
  /\ conts' = [conts EXCEPT ![1] = SortedRowContainer_Close_Debit(@)]
  /\ pc' = "close1"
  /\ UNCHANGED <<lifeFrame, tasks, ioFaults, nFallback, lastOp>>

\* RowContainer.Close up to records.Clear; the result of Close is known here.
Cont_Close_Disk ==
  /\ \/ kind = "RowContainer" /\ pc = "idle"
     \/ kind = "SortedRowContainer" /\ pc = "close1"
  /\ \E fail \in CloseFaults(conts[1]) :
       LET r == RowContainer_Close_Disk(conts[1], fail)
       IN /\ conts' = [conts EXCEPT ![1] = r.c]
          /\ ioFaults' = IF fail THEN ioFaults + 1 ELSE ioFaults
          /\ lastOp' = Op("Close", r.err, lastOp.n)
  /\ pc' = "close2"
  /\ UNCHANGED <<lifeFrame, tasks, nFallback>>

\* RowContainer.Close, records.Clear, and the return.
Cont_Close_Clear ==
  /\ kind \in {"RowContainer", "SortedRowContainer"} /\ pc = "close2"
  /\ conts' = [conts EXCEPT ![1] = RowContainer_Close_Clear(@)]
  /\ pc' = "closed"
  /\ UNCHANGED <<lifeFrame, tasks, ioFaults, nFallback, lastOp>>

LifeNext ==
  \/ Cont_Add
  \/ Cont_SpillToDisk
  \/ Cont_InitPointersAndSort
  \/ Cont_Reset
  \/ Cont_ChargePointers
  \/ Cont_Close_Debit
  \/ Cont_Close_Disk
  \/ Cont_Close_Clear
  \/ SpillDiskAction_Action
  \/ SortAndSpillDiskAction_Action
  \/ task_InitPointersAndSort
  \/ task_SpillToDisk

\* The container of SpecCont under one key configuration.
LifeInit == ContInit /\ keyColumns = <<1>>

SpecLife == LifeInit /\ [][LifeNext]_vars

\* ---------------------------------------------------------------- executors over a failing child
\* fetchRowChunks when the child's Next returns an error, with the flag
\* fetched set all the same.
fetchRowChunks_ChildErr_Fetched ==
  /\ kind = "SortExec" /\ pc = "fetch"
  /\ pc' = "error"
  /\ fetched' = TRUE
  /\ lastOp' = Op("Next", "childError", 0)
  /\ UNCHANGED <<cfgVars, child, conts, rowChunks, partitionList, spillAction, tasks, chk, chkI,
                 req, out, Idx, multiWayMerge, totalLimit, memTracker, ioFaults, nFallback>>

\* fetchRowChunks when the child's Next returns an error: SortExec.Next
\* returns it at once.
fetchRowChunks_ChildErr ==
  /\ kind = "SortExec" /\ pc = "fetch"
  /\ pc' = "error"
  /\ lastOp' = Op("Next", "childError", 0)
  /\ UNCHANGED <<cfgVars, child, conts, rowChunks, partitionList, spillAction, tasks, chk, chkI,
                 req, out, Idx, fetched, multiWayMerge, totalLimit, memTracker, ioFaults,
                 nFallback>>

\* loadChunksUntilTotalLimit when the child's Next returns an error.
loadChunksUntilTotalLimit_ChildErr ==
  /\ kind = "TopNExec" /\ pc = "load"
  /\ NumRow(conts[rowChunks]) < totalLimit
  /\ pc' = "error"
  /\ lastOp' = Op("Next", "childError", 0)
  /\ UNCHANGED <<cfgVars, child, conts, rowChunks, partitionList, spillAction, tasks, chk, chkI,
                 req, out, Idx, fetched, multiWayMerge, totalLimit, memTracker, ioFaults,
                 nFallback>>

\* executeTopN when the child's Next returns an error.
executeTopN_ChildErr ==
  /\ kind = "TopNExec" /\ pc \in {"stream", "checked"}
  /\ pc' = "error"
  /\ lastOp' = Op("Next", "childError", 0)
  /\ UNCHANGED <<cfgVars, child, conts, rowChunks, partitionList, spillAction, tasks, chk, chkI,
                 req, out, Idx, fetched, multiWayMerge, totalLimit, memTracker, ioFaults,
                 nFallback>>

\* Either executor, over a child of at most MaxExecRows rows.
ExecInit == (SortInit \/ TopNInit) /\ Len(input) <= MaxExecRows

ExecNext ==
  \/ SortNext
  \/ TopNNext
  \/ fetchRowChunks_ChildErr
  \/ loadChunksUntilTotalLimit_ChildErr
  \/ executeTopN_ChildErr

SpecExec == ExecInit /\ [][ExecNext]_vars

\* ---------------------------------------------------------------- SortExec.Close
\* SortExec.Close, which TopNExec inherits.  Neither it nor the Close of a
\* container takes a lock: every statement of the loop over the partitions
\* is a step of its own, and the spill action and its goroutine run between
\* them.  chkI is the index of the range loop.  The spill action stays
\* registered on the statement's tracker, so spillAction is left alone.
closeFrame == <<cfgVars, child, spillAction, tasks, chk, req, out, Idx, fetched, totalLimit,
                nFallback>>

\* The call of Close, made between two calls of Next or after the last one.
SortExec_Close ==
  /\ kind \in {"SortExec", "TopNExec"} /\ pc \in {"idle", "done", "error"}
  /\ pc' = "closing"
  /\ chkI' = 0
  /\ UNCHANGED <<closeFrame, conts, rowChunks, partitionList, multiWayMerge, memTracker,
                 ioFaults, lastOp>>

\* container.Close() of the partition in hand, first statement: the debit
\* of the pointers (SortedRowContainer.Close).
SortExec_Close_Debit ==
  /\ kind \in {"SortExec", "TopNExec"} /\ pc = "closing" /\ chkI < Len(partitionList)
  /\ conts' = [conts EXCEPT ![partitionList[chkI + 1]] = SortedRowContainer_Close_Debit(@)]
  /\ pc' = "close1"
  /\ UNCHANGED <<closeFrame, rowChunks, partitionList, chkI, multiWayMerge, memTracker,
                 ioFaults, lastOp>>

\* container.Close(), RowContainer.Close up to records.Clear.
SortExec_Close_Disk ==
  /\ kind \in {"SortExec", "TopNExec"} /\ pc = "close1"
  /\ \E fail \in CloseFaults(conts[partitionList[chkI + 1]]) :
       LET r == RowContainer_Close_Disk(conts[partitionList[chkI + 1]], fail)
       IN /\ conts' = [conts EXCEPT ![partitionList[chkI + 1]] = r.c]
          /\ ioFaults' = IF fail THEN ioFaults + 1 ELSE ioFaults
          /\ lastOp' = Op("Close", r.err, 0)
  /\ pc' = "close2"
  /\ UNCHANGED <<closeFrame, rowChunks, partitionList, chkI, multiWayMerge, memTracker>>

\* container.Close(), records.Clear and the return: an error ends
\* SortExec.Close at once, the partitions after this one are not closed.
SortExec_Close_Clear ==
  /\ kind \in {"SortExec", "TopNExec"} /\ pc = "close2"
  /\ conts' = [conts EXCEPT ![partitionList[chkI + 1]] = RowContainer_Close_Clear(@)]
  /\ IF lastOp.err = "nil" THEN pc' = "closing" /\ chkI' = chkI + 1
     ELSE pc' = "closeError" /\ chkI' = chkI
  /\ UNCHANGED <<closeFrame, rowChunks, partitionList, multiWayMerge, memTracker, ioFaults,
                 lastOp>>

\* SortExec.Close after the loop: the partition list is truncated, the
\* consumption of rowChunks is debited from the executor's tracker, and the
\* fields are set to nil.  The child closes without error.
SortExec_Close_End ==
  /\ kind \in {"SortExec", "TopNExec"} /\ pc = "closing" /\ chkI >= Len(partitionList)
  /\ partitionList' = <<>>
  /\ memTracker' = IF rowChunks # 0 THEN memTracker - conts[rowChunks].memBytes ELSE memTracker
  /\ rowChunks' = 0
  /\ multiWayMerge' = Nil
  /\ pc' = "closed"
  /\ lastOp' = Op("Close", "nil", 0)
  /\ UNCHANGED <<closeFrame, conts, chkI, ioFaults>>

\* Either executor over a short child, or TopNExec over scenario S4 (the
\* input that makes it compact).
CloseInit ==
  /\ SortInit \/ TopNInit
  /\ Len(input) <= MaxExecRows \/ input = ScenarioS4

CloseNext ==
  \/ ExecNext
  \/ SortExec_Close
  \/ SortExec_Close_Debit
  \/ SortExec_Close_Disk
  \/ SortExec_Close_Clear
  \/ SortExec_Close_End

SpecClose == CloseInit /\ [][CloseNext]_vars

\* Close is a sequential function and the goroutines of the spill action are
\* scheduled: a Close that has begun runs on to its return, and a spill task
\* that can take its next step eventually takes it.
SpecCloseFair ==
  /\ CloseInit /\ [][CloseNext]_vars
  /\ WF_vars(SortExec_Close_Debit)
  /\ WF_vars(SortExec_Close_Disk)
  /\ WF_vars(SortExec_Close_Clear)
  /\ WF_vars(SortExec_Close_End)
  /\ WF_vars(task_InitPointersAndSort)
  /\ WF_vars(task_SpillToDisk)

\* The consumption the statement's tracker sees from this executor: a
\* tracker passes every Consume on to its parent, so it is the sum of the
\* executor's own charges and of the trackers of the containers attached
\* to the executor's tracker.
RECURSIVE SumMemBytes(_)
SumMemBytes(cs) == IF cs = <<>> THEN 0 ELSE Head(cs).memBytes + SumMemBytes(Tail(cs))

StmtBytesConsumed == memTracker + SumMemBytes(conts)

\* ---------------------------------------------------------------- a container under a byte limit
\* The byte limits tried: the footprint of one row up to one row less than
\* the container may hold.
LimitChoices == {BytesPerRow * k : k \in 1..(MaxContRows - 1)}

\* memory.Tracker.Consume: the tracker invokes its action when the bytes
\* consumed have grown beyond a limit that is set.
TrackerExceeds(c) == bytesLimit > 0 /\ c.memBytes > bytesLimit

\* An action that always delegates to its fallback.
ActionLaunches_Never(c) == FALSE

\* The branch an invocation of the registered action takes on container c:
\* TRUE when it starts a goroutine, FALSE when it delegates to the fallback.
ActionLaunches(c) ==
  IF kind = "SortedRowContainer"
  THEN ~(alreadySpilled(c) \/ c.memBytes = 0)
  ELSE ~alreadySpilled(c)

LimitInit ==
  /\ kind \in {"RowContainer", "SortedRowContainer"}
  /\ keyColumns = <<1>> /\ ByItemsDesc = <<TRUE>>
  /\ oomUseTmpStorage = TRUE
  /\ input = <<>>
  /\ child = <<>>
  /\ conts = <<NewRowContainer>>
  /\ rowChunks = 1
  /\ partitionList = <<>>
  /\ spillAction = 1
  /\ fallbackAction \in BOOLEAN
  /\ tasks = EmptyBag
  /\ pc = "idle"
  /\ chk = <<>>
  /\ chkI = 0
  /\ req = <<>>
  /\ out = <<>>
  /\ Idx = 0
  /\ fetched = FALSE
  /\ multiWayMerge = Nil
  /\ limit = [Offset |-> 0, Count |-> 0]
  /\ totalLimit = 0
  /\ memTracker = 0
  /\ ioFaults = 0
  /\ nFallback = 0
  /\ bytesLimit \in LimitChoices
  /\ panicOnExceed = Nil /\ mutex = Nil /\ at = Nil
  /\ lastOp = NoOp

\* A call of Add on a container whose tracker has a byte limit: the append
\* charges the tracker, and a charge that goes beyond the limit invokes the
\* spill action before Add returns.
Limit_Add ==
  /\ kind \in {"RowContainer", "SortedRowContainer"} /\ pc = "idle" /\ lastOp.n < MaxOps
  /\ \E chunk \in SeqsUpTo(Rows, MaxChunkSize) \ {<<>>}, fail \in FaultChoices :
       /\ NumRow(conts[1]) + Len(chunk) <= MaxContRows
       /\ LET r == IF kind = "SortedRowContainer"
                   THEN SortedRowContainer_Add(conts[1], chunk, fail)
                   ELSE RowContainer_Add(conts[1], chunk, fail)
              invoked == r.c.memBytes > conts[1].memBytes /\ TrackerExceeds(r.c)
          IN /\ conts' = [conts EXCEPT ![1] = r.c]
             /\ ioFaults' = IF r.err = "ioError" THEN ioFaults + 1 ELSE ioFaults
             /\ lastOp' = Op("Add", r.err, lastOp.n + 1)
             /\ IF ~invoked
                THEN UNCHANGED <<tasks, nFallback>>
                ELSE IF ActionLaunches(r.c)
                THEN /\ BagCardinality(tasks) < MaxLaunches
                     /\ tasks' = tasks (+) SetToBag({[c |-> spillAction,
                                    pc |-> IF kind = "SortedRowContainer" THEN "sort" ELSE "spill"]})
                     /\ UNCHANGED nFallback
                ELSE /\ fallbackAction => nFallback < MaxFallback
                     /\ nFallback' = IF fallbackAction THEN nFallback + 1 ELSE nFallback
                     /\ UNCHANGED tasks
  /\ UNCHANGED contFrame

LimitNext ==
  \/ Limit_Add
  \/ task_InitPointersAndSort
  \/ task_SpillToDisk

SpecLimit == LimitInit /\ [][LimitNext]_vars

\* The goroutines started by the actions are scheduled: a spill task that can
\* take its next step eventually takes it.
SpecLimitFair ==
  /\ LimitInit /\ [][LimitNext]_vars
  /\ WF_vars(task_InitPointersAndSort)
  /\ WF_vars(task_SpillToDisk)

\* ---------------------------------------------------------------- util/chunk/row_container.go
\* The RowContainer of util/chunk/row_container.go: its SpillDiskAction
\* calls SpillToDisk itself, and SpillToDisk returns its error.

\* RowContainer.SpillToDisk(needLock): the same copy loop; an error ends the
\* call with the disk list installed and is returned, not stored.
row_container_SpillToDisk(c, failAt) ==
  LET r == spillChunksFrom([c EXCEPT !.recordsInDisk = Some(NewListInDisk)], 1, failAt)
  IN [c |-> [r EXCEPT !.spillError = FALSE],
      err |-> IF failAt = 0 THEN "nil" ELSE "ioError"]

\* The chunk whose disk write may fail in a spill of c (0: none).
row_container_SpillFaults(c) ==
  IF ioFaults >= MaxIOFaults THEN {0} ELSE 0..Len(c.records)

SyncInit ==
  /\ kind = "row_container.go"
  /\ keyColumns = <<1>> /\ ByItemsDesc = <<TRUE>>
  /\ oomUseTmpStorage = TRUE
  /\ input = <<>>
  /\ child = <<>>
  /\ conts = <<NewRowContainer>>
  /\ rowChunks = 1
  /\ partitionList = <<>>
  /\ spillAction = 1
  /\ fallbackAction \in BOOLEAN
  /\ tasks = EmptyBag
  /\ pc = "idle"
  /\ chk = <<>>
  /\ chkI = 0
  /\ req = <<>>
  /\ out = <<>>
  /\ Idx = 0
  /\ fetched = FALSE
  /\ multiWayMerge = Nil
  /\ limit = [Offset |-> 0, Count |-> 0]
  /\ totalLimit = 0
  /\ memTracker = 0
  /\ ioFaults = 0
  /\ nFallback = 0
  /\ bytesLimit \in LimitChoices
  /\ panicOnExceed = Nil /\ mutex = Nil /\ at = Nil
  /\ lastOp = NoOp

\* RowContainer.Add.  The append to the in-memory list charges the tracker; a
\* charge beyond the limit makes the tracker call SpillDiskAction.Action with
\* the container's own tracker as trigger, which (the container being in
\* memory and its tracker above 0) runs SpillToDisk(false) before Add returns
\* and panics on its error.
row_container_Add ==
  /\ kind = "row_container.go" /\ pc = "idle" /\ lastOp.n < MaxOps
  /\ \E chunk \in SeqsUpTo(Rows, MaxChunkSize) \ {<<>>} :
       /\ NumRow(conts[1]) + Len(chunk) <= MaxContRows
       /\ IF alreadySpilled(conts[1])
          THEN \E fail \in FaultChoices :
                 LET r == RowContainer_Add_IgnoreError(conts[1], chunk, fail)
                 IN /\ conts' = [conts EXCEPT ![1] = r.c]
                    /\ ioFaults' = IF fail THEN ioFaults + 1 ELSE ioFaults
                    /\ lastOp' = Op("Add", r.err, lastOp.n + 1)
                    /\ UNCHANGED pc
          ELSE LET a == List_Add(conts[1], chunk)
               IN IF ~TrackerExceeds(a)
                  THEN /\ conts' = [conts EXCEPT ![1] = a]
                       /\ lastOp' = Op("Add", "nil", lastOp.n + 1)
                       /\ UNCHANGED <<pc, ioFaults>>
                  ELSE \E failAt \in row_container_SpillFaults(a) :
                         LET r == row_container_SpillToDisk(a, failAt)
                         IN /\ conts' = [conts EXCEPT ![1] = r.c]
                            /\ ioFaults' = IF failAt = 0 THEN ioFaults ELSE ioFaults + 1
                            /\ pc' = IF r.err = "nil" THEN pc ELSE "panic"
                            /\ lastOp' = Op("Add", IF r.err = "nil" THEN "nil" ELSE "panic",
                                            lastOp.n + 1)
  /\ UNCHANGED <<cfgVars, child, rowChunks, partitionList, spillAction, tasks, chk, chkI, req,
                 out, Idx, fetched, multiWayMerge, totalLimit, memTracker, nFallback>>

\* SpillDiskAction.Action called for a breach that another consumer of the
\* statement's memory caused (the trigger is not the container's tracker, so
\* SpillToDisk takes the lock): delegate to the fallback when the container
\* is spilled or its tracker is at 0, otherwise run SpillToDisk and panic on
\* its error.
row_container_SpillDiskAction_Action ==
  /\ kind = "row_container.go" /\ pc = "idle" /\ lastOp.n < MaxOps
  /\ IF alreadySpilled(conts[1]) \/ conts[1].memBytes = 0
     THEN /\ fallbackAction => nFallback < MaxFallback
          /\ nFallback' = IF fallbackAction THEN nFallback + 1 ELSE nFallback
          /\ lastOp' = Op("Action", "nil", lastOp.n + 1)
          /\ UNCHANGED <<conts, ioFaults, pc>>
     ELSE \E failAt \in row_container_SpillFaults(conts[1]) :
            LET r == row_container_SpillToDisk(conts[1], failAt)
            IN /\ conts' = [conts EXCEPT ![1] = r.c]
               /\ ioFaults' = IF failAt = 0 THEN ioFaults ELSE ioFaults + 1
               /\ pc' = IF r.err = "nil" THEN pc ELSE "panic"
               /\ lastOp' = Op("Action", IF r.err = "nil" THEN "nil" ELSE "panic",
                               lastOp.n + 1)
               /\ UNCHANGED nFallback
  /\ UNCHANGED <<cfgVars, child, rowChunks, partitionList, spillAction, tasks, chk, chkI, req,
                 out, Idx, fetched, multiWayMerge, totalLimit, memTracker>>

SyncNext ==
  \/ row_container_Add
  \/ row_container_SpillDiskAction_Action

SpecSync == SyncInit /\ [][SyncNext]_vars

\* ---------------------------------------------------------------- memory.PanicOnExceed
\* One PanicOnExceed and MaxInvocations goroutines that each call its Action
\* once, statement by statement.  acted is the flag; M is the goroutine that
\* holds BaseOOMAction.M (0: nobody); logHook tells whether SetLogHook has set
\* a hook; hooked lists the invocations that called it; inv gives every
\* invocation's position: "none" (not called), "Lock", "test", "Unlock",
\* "logHook", "panic", and the two ends "returned" and "panicked".
Invocations == 1..MaxInvocations

\* The variables no step of PanicOnExceed.Action touches.
panicFrame == <<kind, keyColumns, ByItemsDesc, oomUseTmpStorage, input, child, conts, rowChunks,
                partitionList, spillAction, fallbackAction, tasks, pc, chk, chkI, req, out,
                Idx, fetched, multiWayMerge, limit, totalLimit, memTracker, ioFaults, nFallback,
                bytesLimit, mutex, at, lastOp>>

PanicInit ==
  /\ kind = "PanicOnExceed"
  /\ keyColumns = <<1>> /\ ByItemsDesc = <<TRUE>>
  /\ oomUseTmpStorage = TRUE
  /\ input = <<>>
  /\ child = <<>>
  /\ conts = <<>>
  /\ rowChunks = 0
  /\ partitionList = <<>>
  /\ spillAction = 0
  /\ fallbackAction = FALSE
  /\ tasks = EmptyBag
  /\ pc = "idle"
  /\ chk = <<>>
  /\ chkI = 0
  /\ req = <<>>
  /\ out = <<>>
  /\ Idx = 0
  /\ fetched = FALSE
  /\ multiWayMerge = Nil
  /\ limit = [Offset |-> 0, Count |-> 0]
  /\ totalLimit = 0
  /\ memTracker = 0
  /\ ioFaults = 0
  /\ nFallback = 0
  /\ bytesLimit = -1
  /\ \E hook \in BOOLEAN :
       panicOnExceed = [acted |-> FALSE, M |-> 0, logHook |-> hook, hooked |-> <<>>,
                        inv |-> [i \in Invocations |-> "none"]]
  /\ mutex = Nil /\ at = Nil
  /\ lastOp = NoOp

\* A goroutine calls a.Action(t).
PanicOnExceed_Action_Call(i) ==
  /\ kind = "PanicOnExceed" /\ panicOnExceed.inv[i] = "none"
  /\ panicOnExceed' = [panicOnExceed EXCEPT !.inv[i] = "Lock"]
  /\ UNCHANGED panicFrame

\* a.M.Lock()
PanicOnExceed_Action_Lock(i) ==
  /\ kind = "PanicOnExceed" /\ panicOnExceed.inv[i] = "Lock"
  /\ panicOnExceed.M = 0
  /\ panicOnExceed' = [panicOnExceed EXCEPT !.M = i, !.inv[i] = "test"]
  /\ UNCHANGED panicFrame

\* The test of the flag that never finds it set.
PanicOnExceed_Action_Test_Blind(i) ==
  /\ kind = "PanicOnExceed" /\ panicOnExceed.inv[i] = "test"
  /\ panicOnExceed' = [panicOnExceed EXCEPT !.acted = TRUE, !.inv[i] = "Unlock"]
  /\ UNCHANGED panicFrame

\* if a.acted { a.M.Unlock(); return }; a.acted = true
PanicOnExceed_Action_Test(i) ==
  /\ kind = "PanicOnExceed" /\ panicOnExceed.inv[i] = "test"
  /\ IF panicOnExceed.acted
     THEN panicOnExceed' = [panicOnExceed EXCEPT !.M = 0, !.inv[i] = "returned"]
     ELSE panicOnExceed' = [panicOnExceed EXCEPT !.acted = TRUE, !.inv[i] = "Unlock"]
  /\ UNCHANGED panicFrame

\* a.M.Unlock()
PanicOnExceed_Action_Unlock(i) ==
  /\ kind = "PanicOnExceed" /\ panicOnExceed.inv[i] = "Unlock"
  /\ panicOnExceed' = [panicOnExceed EXCEPT !.M = 0, !.inv[i] = "logHook"]
  /\ UNCHANGED panicFrame

\* if a.logHook != nil { a.logHook(a.ConnID) }
PanicOnExceed_Action_LogHook(i) ==
  /\ kind = "PanicOnExceed" /\ panicOnExceed.inv[i] = "logHook"
  /\ panicOnExceed' = [panicOnExceed EXCEPT
                         !.hooked = IF panicOnExceed.logHook THEN Append(@, i) ELSE @,
                         !.inv[i] = "panic"]
  /\ UNCHANGED panicFrame

\* panic(PanicMemoryExceed + ...)
PanicOnExceed_Action_Panic(i) ==
  /\ kind = "PanicOnExceed" /\ panicOnExceed.inv[i] = "panic"
  /\ panicOnExceed' = [panicOnExceed EXCEPT !.inv[i] = "panicked"]
  /\ UNCHANGED panicFrame

\* One statement of one invocation.
PanicOnExceed_Action(i) ==
  \/ PanicOnExceed_Action_Lock(i)
  \/ PanicOnExceed_Action_Test(i)
  \/ PanicOnExceed_Action_Unlock(i)
  \/ PanicOnExceed_Action_LogHook(i)
  \/ PanicOnExceed_Action_Panic(i)

PanicNext ==
  \/ \E i \in Invocations : PanicOnExceed_Action_Call(i)
  \/ \E i \in Invocations : PanicOnExceed_Action(i)

\* Goroutines are scheduled: an invocation that has been called and can run
\* its next statement eventually runs it.  Whether a goroutine calls Action
\* at all is its own choice.
SpecPanicFair ==
  /\ PanicInit /\ [][PanicNext]_vars
  /\ \A i \in Invocations : WF_vars(PanicOnExceed_Action(i))

\* ---------------------------------------------------------------- the locks of a container
\* One container (conts[1]) under a byte limit with its spill action, every
\* lock acquisition a step of its own.  The goroutines: the producer, which
\* calls Add; the goroutines started by the action; and a bystander, another
\* consumer of the statement's tracker, through which the tracker invokes
\* the action outside any Add.
producer == 0
TaskIds == 1..MaxLaunches
bystander == MaxLaunches + 1
Goroutines == {producer, bystander} \cup TaskIds
NoGoroutine == -1

\* sync.RWMutex: the goroutines holding it for reading (a bag: RLock can be
\* taken twice by one goroutine), the writer holding it, and the writers that
\* have called Lock and wait.  A waiting writer blocks new readers.
NewRWMutex == [readers |-> EmptyBag, writer |-> NoGoroutine, pending |-> {}]

CanRLock(rw) == rw.writer = NoGoroutine /\ rw.pending = {}

RLock(rw, g) == [rw EXCEPT !.readers = @ (+) SetToBag({g})]

RUnlock(rw, g) == [rw EXCEPT !.readers = @ (-) SetToBag({g})]

\* Lock, first half: the writer announces itself.
LockRequest(rw, g) == [rw EXCEPT !.pending = @ \cup {g}]

CanLock(rw, g) == g \in rw.pending /\ rw.writer = NoGoroutine /\ rw.readers = EmptyBag

\* Lock, second half: the readers have left.
Lock(rw, g) == [rw EXCEPT !.writer = g, !.pending = @ \ {g}]

Unlock(rw) == [rw EXCEPT !.writer = NoGoroutine]

\* The variables no step of this section touches.
lockFrame == <<kind, keyColumns, ByItemsDesc, oomUseTmpStorage, input, child, rowChunks,
               partitionList, spillAction, fallbackAction, tasks, pc, chkI, req, out, Idx,
               fetched, multiWayMerge, limit, totalLimit, memTracker, bytesLimit, panicOnExceed>>

LockInit ==
  /\ kind \in {"RowContainer", "SortedRowContainer"}
  /\ keyColumns = <<1>> /\ ByItemsDesc = <<TRUE>>
  /\ oomUseTmpStorage = TRUE
  /\ input = <<>>
  /\ child = <<>>
  /\ conts = <<NewRowContainer>>
  /\ rowChunks = 1
  /\ partitionList = <<>>
  /\ spillAction = 1
  /\ fallbackAction \in BOOLEAN
  /\ tasks = EmptyBag
  /\ pc = "idle"
  /\ chk = <<>>
  /\ chkI = 0
  /\ req = <<>>
  /\ out = <<>>
  /\ Idx = 0
  /\ fetched = FALSE
  /\ multiWayMerge = Nil
  /\ limit = [Offset |-> 0, Count |-> 0]
  /\ totalLimit = 0
  /\ memTracker = 0
  /\ ioFaults = 0
  /\ nFallback = 0
  /\ bytesLimit \in LimitChoices
  /\ panicOnExceed = Nil
  /\ mutex = [ptrM |-> NewRWMutex, m |-> NewRWMutex, a |-> NoGoroutine]
  /\ at = [g \in Goroutines |-> IF g \in TaskIds THEN "none" ELSE "idle"]
  /\ lastOp = NoOp

\* The goroutines the action can still start, and the callers other than g
\* that are inside a call that may start one.
FreeTasks == {i \in TaskIds : at[i] = "none"}
Callers(g) == {h \in {producer, bystander} \ {g} : at[h] # "idle"}

\* The rows the producer adds: a least and a greatest key.
LockRows == {<<0, 0>>, <<MaxKey, 0>>}

\* The producer calls Add with a chunk of one row.
Lock_Add_Call ==
  /\ mutex # Nil /\ at[producer] = "idle" /\ lastOp.n < MaxOps
  /\ Cardinality(FreeTasks) > Cardinality(Callers(producer))
  /\ NumRow(conts[1]) < MaxContRows
  /\ \E r \in LockRows : chk' = <<r>>
  /\ at' = [at EXCEPT ![producer] = IF kind = "SortedRowContainer" THEN "Add.ptrM.RLock" ELSE "Add.m.RLock"]
  /\ lastOp' = Op("Add", "nil", lastOp.n + 1)
  /\ UNCHANGED <<lockFrame, conts, mutex, ioFaults, nFallback>>

\* SortedRowContainer.Add: c.ptrM.RLock()
Lock_Add_ptrM_RLock ==
  /\ mutex # Nil /\ at[producer] = "Add.ptrM.RLock"
  /\ CanRLock(mutex.ptrM)
  /\ mutex' = [mutex EXCEPT !.ptrM = RLock(@, producer)]
  /\ at' = [at EXCEPT ![producer] = "Add.test"]
  /\ UNCHANGED <<lockFrame, conts, chk, ioFaults, nFallback, lastOp>>

\* SortedRowContainer.Add without the test of rowPtrs.
Lock_Add_Test_Skip ==
  /\ mutex # Nil /\ at[producer] = "Add.test"
  /\ at' = [at EXCEPT ![producer] = "Add.m.RLock"]
  /\ UNCHANGED <<lockFrame, conts, chk, mutex, ioFaults, nFallback, lastOp>>

\* SortedRowContainer.Add: if c.ptrM.rowPtrs != nil { return ErrInsertToPartitionFailed }
Lock_Add_Test ==
  /\ mutex # Nil /\ at[producer] = "Add.test"
  /\ IF ~IsNil(conts[1].rowPtrs)
     THEN /\ at' = [at EXCEPT ![producer] = "Add.ptrM.RUnlock"]
          /\ lastOp' = [lastOp EXCEPT !.err = "ErrInsertToPartitionFailed"]
     ELSE /\ at' = [at EXCEPT ![producer] = "Add.m.RLock"]
          /\ UNCHANGED lastOp
  /\ UNCHANGED <<lockFrame, conts, chk, mutex, ioFaults, nFallback>>

\* RowContainer.Add: c.m.RLock()
Lock_Add_m_RLock ==
  /\ mutex # Nil /\ at[producer] = "Add.m.RLock"
  /\ CanRLock(mutex.m)
  /\ mutex' = [mutex EXCEPT !.m = RLock(@, producer)]
  /\ at' = [at EXCEPT ![producer] = "Add.body"]
  /\ UNCHANGED <<lockFrame, conts, chk, ioFaults, nFallback, lastOp>>

\* RowContainer.Add, the append.  An append to the in-memory list charges the
\* tracker, and a charge beyond the limit makes the tracker call the action
\* before the append returns.
Lock_Add_Body ==
  /\ mutex # Nil /\ at[producer] = "Add.body"
  /\ \E fail \in FaultChoices :
       LET r == RowContainer_Add(conts[1], chk, fail)
           invoked == r.c.memBytes > conts[1].memBytes /\ TrackerExceeds(r.c)
       IN /\ conts' = [conts EXCEPT ![1] = r.c]
          /\ ioFaults' = IF r.err = "ioError" THEN ioFaults + 1 ELSE ioFaults
          /\ lastOp' = [lastOp EXCEPT !.err = r.err]
          /\ at' = [at EXCEPT ![producer] = IF invoked THEN "Action.Lock" ELSE "Add.m.RUnlock"]
  /\ UNCHANGED <<lockFrame, chk, mutex, nFallback>>

\* RowContainer.Add: the deferred c.m.RUnlock()
Lock_Add_m_RUnlock ==
  /\ mutex # Nil /\ at[producer] = "Add.m.RUnlock"
  /\ mutex' = [mutex EXCEPT !.m = RUnlock(@, producer)]
  /\ at' = [at EXCEPT ![producer] = IF kind = "SortedRowContainer" THEN "Add.ptrM.RUnlock" ELSE "idle"]
  /\ UNCHANGED <<lockFrame, conts, chk, ioFaults, nFallback, lastOp>>

\* SortedRowContainer.Add: the deferred c.ptrM.RUnlock()
Lock_Add_ptrM_RUnlock ==
  /\ mutex # Nil /\ at[producer] = "Add.ptrM.RUnlock"
  /\ mutex' = [mutex EXCEPT !.ptrM = RUnlock(@, producer)]
  /\ at' = [at EXCEPT ![producer] = "idle"]
  /\ UNCHANGED <<lockFrame, conts, chk, ioFaults, nFallback, lastOp>>

\* The tracker invokes the action on a charge made by the bystander.
Lock_Action_Call ==
  /\ mutex # Nil /\ at[bystander] = "idle" /\ lastOp.n < MaxOps
  /\ Cardinality(FreeTasks) > Cardinality(Callers(bystander))
  /\ at' = [at EXCEPT ![bystander] = "Action.Lock"]
  /\ lastOp' = [lastOp EXCEPT !.n = @ + 1]
  /\ UNCHANGED <<lockFrame, conts, chk, mutex, ioFaults, nFallback>>

\* Action: a.m.Lock()
Lock_Action_Lock(g) ==
  /\ mutex # Nil /\ at[g] = "Action.Lock"
  /\ mutex.a = NoGoroutine
  /\ mutex' = [mutex EXCEPT !.a = g]
  /\ at' = [at EXCEPT ![g] = "Safe.RLock"]
  /\ UNCHANGED <<lockFrame, conts, chk, ioFaults, nFallback, lastOp>>

\* AlreadySpilledSafe: c.m.RLock()
Lock_AlreadySpilledSafe_RLock(g) ==
  /\ mutex # Nil /\ at[g] = "Safe.RLock"
  /\ CanRLock(mutex.m)
  /\ mutex' = [mutex EXCEPT !.m = RLock(@, g)]
  /\ at' = [at EXCEPT ![g] = "Safe.RUnlock"]
  /\ UNCHANGED <<lockFrame, conts, chk, ioFaults, nFallback, lastOp>>

\* AlreadySpilledSafe: return c.m.recordsInDisk != nil, and the deferred
\* c.m.RUnlock()
Lock_AlreadySpilledSafe_RUnlock(g) ==
  /\ mutex # Nil /\ at[g] = "Safe.RUnlock"
  /\ mutex' = [mutex EXCEPT !.m = RUnlock(@, g)]
  /\ at' = [at EXCEPT ![g] = IF alreadySpilled(conts[1]) THEN "Action.fallback" ELSE "Action.else"]
  /\ UNCHANGED <<lockFrame, conts, chk, ioFaults, nFallback, lastOp>>

\* Action, the branch taken, and the deferred a.m.Unlock().  The action of a
\* sorted container reads BytesConsumed() when AlreadySpilledSafe has
\* returned false.
Lock_Action_Branch(g) ==
  /\ mutex # Nil /\ at[g] \in {"Action.fallback", "Action.else"}
  /\ IF at[g] = "Action.else" /\ (kind = "SortedRowContainer" => conts[1].memBytes # 0)
     THEN LET i == CHOOSE j \in FreeTasks : \A k \in FreeTasks : j <= k
          IN /\ at' = [at EXCEPT ![i] = IF kind = "SortedRowContainer" THEN "sort.ptrM.Lock" ELSE "spill.m.Lock",
                                 ![g] = IF g = producer THEN "Add.m.RUnlock" ELSE "idle"]
             /\ UNCHANGED nFallback
     ELSE /\ at' = [at EXCEPT ![g] = IF g = producer THEN "Add.m.RUnlock" ELSE "idle"]
          /\ nFallback' = IF fallbackAction THEN nFallback + 1 ELSE nFallback
  /\ mutex' = [mutex EXCEPT !.a = NoGoroutine]
  /\ UNCHANGED <<lockFrame, conts, chk, ioFaults, lastOp>>

\* InitPointersAndSort: c.ptrM.Lock(), the call
Lock_task_ptrM_LockRequest(i) ==
  /\ mutex # Nil /\ at[i] = "sort.ptrM.Lock"
  /\ mutex' = [mutex EXCEPT !.ptrM = LockRequest(@, i)]
  /\ at' = [at EXCEPT ![i] = "sort.ptrM.wait"]
  /\ UNCHANGED <<lockFrame, conts, chk, ioFaults, nFallback, lastOp>>

\* InitPointersAndSort: c.ptrM.Lock() returns
Lock_task_ptrM_Lock(i) ==
  /\ mutex # Nil /\ at[i] = "sort.ptrM.wait"
  /\ CanLock(mutex.ptrM, i)
  /\ mutex' = [mutex EXCEPT !.ptrM = Lock(@, i)]
  /\ at' = [at EXCEPT ![i] = "sort.test"]
  /\ UNCHANGED <<lockFrame, conts, chk, ioFaults, nFallback, lastOp>>

\* InitPointersAndSort: if c.ptrM.rowPtrs != nil { return }
Lock_task_Test(i) ==
  /\ mutex # Nil /\ at[i] = "sort.test"
  /\ at' = [at EXCEPT ![i] = IF ~IsNil(conts[1].rowPtrs) THEN "sort.ptrM.Unlock"
                                                        ELSE "sort.NumRow.RLock"]
  /\ UNCHANGED <<lockFrame, conts, chk, mutex, ioFaults, nFallback, lastOp>>

\* InitPointersAndSort: c.NumRow() takes c.m.RLock() (and so do NumChunks and
\* GetChunk after it, each releasing the lock before the next takes it)
Lock_task_NumRow_RLock(i) ==
  /\ mutex # Nil /\ at[i] = "sort.NumRow.RLock"
  /\ CanRLock(mutex.m)
  /\ mutex' = [mutex EXCEPT !.m = RLock(@, i)]
  /\ at' = [at EXCEPT ![i] = "sort.NumRow.RUnlock"]
  /\ UNCHANGED <<lockFrame, conts, chk, ioFaults, nFallback, lastOp>>

\* NumRow: the deferred c.m.RUnlock()
Lock_task_NumRow_RUnlock(i) ==
  /\ mutex # Nil /\ at[i] = "sort.NumRow.RUnlock"
  /\ mutex' = [mutex EXCEPT !.m = RUnlock(@, i)]
  /\ at' = [at EXCEPT ![i] = "sort.body"]
  /\ UNCHANGED <<lockFrame, conts, chk, ioFaults, nFallback, lastOp>>

\* InitPointersAndSort: the pointers and the sort
Lock_task_InitPointersAndSort(i) ==
  /\ mutex # Nil /\ at[i] = "sort.body"
  /\ \E c \in InitPointersAndSort(conts[1]) : conts' = [conts EXCEPT ![1] = c]
  /\ at' = [at EXCEPT ![i] = "sort.ptrM.Unlock"]
  /\ UNCHANGED <<lockFrame, chk, mutex, ioFaults, nFallback, lastOp>>

\* InitPointersAndSort: the deferred c.ptrM.Unlock()
Lock_task_ptrM_Unlock(i) ==
  /\ mutex # Nil /\ at[i] = "sort.ptrM.Unlock"
  /\ mutex' = [mutex EXCEPT !.ptrM = Unlock(@)]
  /\ at' = [at EXCEPT ![i] = "spill.m.Lock"]
  /\ UNCHANGED <<lockFrame, conts, chk, ioFaults, nFallback, lastOp>>

\* SpillToDisk: c.m.Lock(), the call
Lock_task_m_LockRequest(i) ==
  /\ mutex # Nil /\ at[i] = "spill.m.Lock"
  /\ mutex' = [mutex EXCEPT !.m = LockRequest(@, i)]
  /\ at' = [at EXCEPT ![i] = "spill.m.wait"]
  /\ UNCHANGED <<lockFrame, conts, chk, ioFaults, nFallback, lastOp>>

\* SpillToDisk: c.m.Lock() returns
Lock_task_m_Lock(i) ==
  /\ mutex # Nil /\ at[i] = "spill.m.wait"
  /\ CanLock(mutex.m, i)
  /\ mutex' = [mutex EXCEPT !.m = Lock(@, i)]
  /\ at' = [at EXCEPT ![i] = "spill.body"]
  /\ UNCHANGED <<lockFrame, conts, chk, ioFaults, nFallback, lastOp>>

\* SpillToDisk under the lock
Lock_task_SpillToDisk(i) ==
  /\ mutex # Nil /\ at[i] = "spill.body"
  /\ \E failAt \in SpillFaults(conts[1]) :
       /\ conts' = [conts EXCEPT ![1] = SpillToDisk(@, failAt)]
       /\ ioFaults' = IF failAt = 0 THEN ioFaults ELSE ioFaults + 1
  /\ at' = [at EXCEPT ![i] = "spill.m.Unlock"]
  /\ UNCHANGED <<lockFrame, chk, mutex, nFallback, lastOp>>

\* SpillToDisk: the deferred c.m.Unlock(); the goroutine ends
Lock_task_m_Unlock(i) ==
  /\ mutex # Nil /\ at[i] = "spill.m.Unlock"
  /\ mutex' = [mutex EXCEPT !.m = Unlock(@)]
  /\ at' = [at EXCEPT ![i] = "done"]
  /\ UNCHANGED <<lockFrame, conts, chk, ioFaults, nFallback, lastOp>>

\* A step of a call of Add that has begun.
Lock_Add ==
  \/ Lock_Add_ptrM_RLock
  \/ Lock_Add_Test
  \/ Lock_Add_m_RLock
  \/ Lock_Add_Body
  \/ Lock_Add_m_RUnlock
  \/ Lock_Add_ptrM_RUnlock

\* A step of an invocation of the action by goroutine g.
Lock_Action(g) ==
  \/ Lock_Action_Lock(g)
  \/ Lock_AlreadySpilledSafe_RLock(g)
  \/ Lock_AlreadySpilledSafe_RUnlock(g)
  \/ Lock_Action_Branch(g)

\* A step of the goroutine i the action has started.
Lock_task(i) ==
  \/ Lock_task_ptrM_LockRequest(i)
  \/ Lock_task_ptrM_Lock(i)
  \/ Lock_task_Test(i)
  \/ Lock_task_NumRow_RLock(i)
  \/ Lock_task_NumRow_RUnlock(i)
  \/ Lock_task_InitPointersAndSort(i)
  \/ Lock_task_ptrM_Unlock(i)
  \/ Lock_task_m_LockRequest(i)
  \/ Lock_task_m_Lock(i)
  \/ Lock_task_SpillToDisk(i)
  \/ Lock_task_m_Unlock(i)

\* A step of a call or goroutine that has begun.
LockProgress ==
  \/ Lock_Add
  \/ \E g \in {producer, bystander} : Lock_Action(g)
  \/ \E i \in TaskIds : Lock_task(i)

LockNext ==
  \/ Lock_Add_Call
  \/ Lock_Action_Call
  \/ LockProgress

\* Goroutines are scheduled: a call that has begun and a goroutine that has
\* been started take their next step when it is possible.  Whether Add or the
\* action is called again is the caller's choice.
SpecLockFair ==
  /\ LockInit /\ [][LockNext]_vars
  /\ WF_vars(Lock_Add)
  /\ \A g \in {producer, bystander} : WF_vars(Lock_Action(g))
  /\ \A i \in TaskIds : WF_vars(Lock_task(i))

\* ---------------------------------------------------------------- properties
\* The requested order, stated on the key columns directly: a sorts strictly
\* before b when at the first by-item on which they differ a is smaller
\* (ascending) or greater (descending).
Before(a, b) ==
  \E i \in DOMAIN keyColumns :
    /\ \A j \in 1..(i - 1) : a[keyColumns[j]] = b[keyColumns[j]]
    /\ IF ByItemsDesc[i] THEN a[keyColumns[i]] > b[keyColumns[i]]
       ELSE a[keyColumns[i]] < b[keyColumns[i]]

Key(row) == [i \in DOMAIN keyColumns |-> row[keyColumns[i]]]
KeysOf(s) == [i \in DOMAIN s |-> Key(s[i])]

\* Insertion of a row into a sequence ordered by Before, after its equals.
RECURSIVE InsertOrdered(_, _)
InsertOrdered(s, r) ==
  IF s = <<>> THEN <<r>>
  ELSE IF Before(r, Head(s)) THEN <<r>> \o s
  ELSE <<Head(s)>> \o InsertOrdered(Tail(s), r)

RECURSIVE Ordered(_)
Ordered(s) == IF s = <<>> THEN <<>> ELSE InsertOrdered(Ordered(SubSeq(s, 1, Len(s) - 1)), s[Len(s)])

IsOrdered(s) == \A i, j \in DOMAIN s : i < j => ~Before(s[j], s[i])

Spilled(i) == alreadySpilled(conts[i])

\* C1: a complete drain of SortExec without I/O error ends normally and
\* returns exactly the multiset of rows the child produced.
C1_SortPreservesRows ==
  (kind = "SortExec" /\ ioFaults = 0) =>
     /\ pc \notin {"error", "panic"}
     /\ pc = "done" => BagOf(out) = BagOf(input)

\* C1 witness: a drain that rolled over to a successor container after a
\* background spill, and returned all three rows.
C1_Witness ==
  /\ kind = "SortExec" /\ pc = "done" /\ ioFaults = 0
  /\ Len(partitionList) >= 2 /\ Spilled(partitionList[1])
  /\ Len(out) = MaxRows

\* C2: the rows returned so far by SortExec.Next are in non-decreasing order
\* of the composite comparator.
C2_SortOutputOrdered == kind = "SortExec" => IsOrdered(out)

\* C2 witness: a finished k-way merge over a spilled and an in-memory
\* partition whose output has two rows with different keys.
C2_Witness ==
  /\ kind = "SortExec" /\ pc = "done"
  /\ Len(partitionList) >= 2
  /\ \E i, j \in DOMAIN partitionList : Spilled(partitionList[i]) /\ ~Spilled(partitionList[j])
  /\ \E i, j \in DOMAIN out : Before(out[i], out[j])

\* The keys by rank of the whole input sorted in one in-memory container.
InMemoryKeys(rows) ==
  IF rows = <<>> THEN <<>>
  ELSE LET c == CHOOSE x \in InitPointersAndSort(List_Add(NewRowContainer, rows)) : TRUE
       IN [k \in 1..Len(rows) |-> Key(GetRowByIdx(c, k - 1).row)]

\* C4: the key sequence of a complete drain is the key sequence of the
\* in-memory sort of the whole input, whatever spills happened.
C4_SpillScheduleIrrelevant ==
  (kind = "SortExec" /\ pc = "done" /\ ioFaults = 0) => KeysOf(out) = InMemoryKeys(input)

\* C4 witness: a finished drain over several partitions, all of them spilled.
C4_Witness ==
  /\ kind = "SortExec" /\ pc = "done" /\ ioFaults = 0
  /\ Len(partitionList) >= 2
  /\ \A i \in DOMAIN partitionList : Spilled(partitionList[i])
  /\ Len(out) = MaxRows

\* The rows at ranks offset .. offset+count-1 of the ordered input.
TopNExpected ==
  SubSeq(Ordered(input), limit.Offset + 1, Min(limit.Offset + limit.Count, Len(input)))

\* C3: TopNExec never fails, and a complete drain returns at most count rows
\* whose keys are those at ranks offset .. offset+count-1 of the ordered input.
C3_TopNRanks ==
  kind = "TopNExec" =>
     /\ pc \notin {"error", "panic"}
     /\ pc = "done" => /\ Len(out) <= limit.Count
                       /\ KeysOf(out) = KeysOf(TopNExpected)

\* C3 restricted to offset + count >= 1.
C3_TopNRanksPositiveLimit ==
  (kind = "TopNExec" /\ limit.Offset + limit.Count >= 1) =>
     /\ pc \notin {"error", "panic"}
     /\ pc = "done" => /\ Len(out) <= limit.Count
                       /\ KeysOf(out) = KeysOf(TopNExpected)

FirstColumn(s) == [i \in DOMAIN s |-> s[i][1]]

\* C5 as stated: scenario S3 returns [5,4,3].
C5_S3_AsStated ==
  (kind = "TopNExec" /\ input = ScenarioS3 /\ pc = "done") => FirstColumn(out) = <<5, 4, 3>>

\* C5: scenario S3 (descending, offset 1, count 3) returns [6,5,4], the
\* ranks 1..3 of 9,6,5,4,3,2,1,1.
C5_S3 ==
  (kind = "TopNExec" /\ input = ScenarioS3 /\ pc = "done") => FirstColumn(out) = <<6, 5, 4>>

C5_Witness == kind = "TopNExec" /\ input = ScenarioS3 /\ pc = "done" /\ Len(out) = 3

\* C6 as stated: scenario S4 returns [3,2,1].
C6_S4_AsStated ==
  (kind = "TopNExec" /\ input = ScenarioS4 /\ pc = "done") => FirstColumn(out) = <<3, 2, 1>>

\* C6: scenario S4 (1..100 ascending, descending order, count 3) returns
\* [100,99,98].
C6_S4 ==
  (kind = "TopNExec" /\ input = ScenarioS4 /\ pc = "done") => FirstColumn(out) = <<100, 99, 98>>

\* C6 witness: S4 drained after at least one compaction (each compaction
\* leaves a charge on the executor's tracker).
C6_Witness ==
  kind = "TopNExec" /\ input = ScenarioS4 /\ pc = "done" /\ Len(out) = 3 /\ memTracker > 0

\* C7 as stated: the container never holds more than
\* topNCompactionFactor * (offset + count) rows.
C7_AsStated ==
  (kind = "TopNExec" /\ rowChunks # 0) =>
     NumRow(conts[rowChunks]) <= topNCompactionFactor * totalLimit

\* C7: right after the compaction check that follows a processed child
\* batch the container holds at most topNCompactionFactor rows per live
\* pointer, hence at most topNCompactionFactor * (offset + count) rows.
C7_BoundAfterCheck ==
  (kind = "TopNExec" /\ pc = "checked") =>
     /\ NumRow(conts[rowChunks]) <= topNCompactionFactor * cap(conts[rowChunks].rowPtrs)
     /\ cap(conts[rowChunks].rowPtrs) <= totalLimit

\* C7 witness: a compaction check passed without compaction on a container
\* filled to the bound.
C7_Witness ==
  /\ kind = "TopNExec" /\ pc = "checked" /\ totalLimit = 3
  /\ NumRow(conts[rowChunks]) = topNCompactionFactor * totalLimit

\* The RowPtrs of all rows of container c.
AllPtrs(c) == Range(scanPointers(c, 1))

\* A step of a driver's call of Add.
AddStep == lastOp'.op = "Add" /\ lastOp'.n # lastOp.n

\* C8: once rowPtrs is set, every Add returns the already-sorted error and
\* leaves the number of rows unchanged, in memory and on disk.
C8_AddAfterSortRejected ==
  [][(kind = "SortedRowContainer" /\ ~IsNil(conts[1].rowPtrs) /\ AddStep) =>
        /\ lastOp'.err = "ErrInsertToPartitionFailed"
        /\ NumRow(conts'[1]) = NumRow(conts[1])]_vars

\* C8 witness: an Add rejected on a container that a background task sorted
\* and spilled.
C8_Witness ==
  /\ kind = "SortedRowContainer" /\ alreadySpilled(conts[1]) /\ ~conts[1].spillError
  /\ lastOp.op = "Add" /\ lastOp.err = "ErrInsertToPartitionFailed"
  /\ NumRow(conts[1]) >= 2

\* A step in which container 1 spills without error.
SpillStep ==
  ~alreadySpilled(conts[1]) /\ alreadySpilled(conts'[1]) /\ ~conts'[1].spillError

\* C9: a successful SpillToDisk empties the in-memory list, keeps NumRow and
\* NumChunks, and every RowPtr valid before it reads the same row after it.
C9_SpillRoundTrip ==
  [][(kind \in {"RowContainer", "SortedRowContainer"} /\ SpillStep) =>
        /\ ListLen(conts'[1].records) = 0
        /\ NumRow(conts'[1]) = NumRow(conts[1])
        /\ NumChunks(conts'[1]) = NumChunks(conts[1])
        /\ \A ptr \in AllPtrs(conts[1]) : GetRow(conts'[1], ptr) = GetRow(conts[1], ptr)]_vars

\* C9 witness: a RowContainer spilled without error with two chunks holding
\* different rows.
C9_Witness ==
  /\ kind = "RowContainer" /\ alreadySpilled(conts[1]) /\ ~conts[1].spillError
  /\ NumChunks(conts[1]) >= 2 /\ NumRow(conts[1]) = MaxContRows
  /\ GetRow(conts[1], <<1, 1>>).row # GetRow(conts[1], <<2, 1>>).row

\* The rows of container c by rank.
RowsByRank(c) == [k \in 1..cap(c.rowPtrs) |-> GetRowByIdx(c, k - 1).row]

\* The rows of container c in insertion order.
RowsInOrder(c) == [i \in DOMAIN scanPointers(c, 1) |-> GetRow(c, scanPointers(c, 1)[i]).row]

\* C10: a sorted container spilled without error reads by rank, through the
\* disk list, all its rows in the order of the comparator, and the step
\* that spills it leaves the row of every rank unchanged.
C10_RankOrderSurvivesSpill ==
  [][kind = "SortedRowContainer" =>
       /\ (alreadySpilled(conts'[1]) /\ ~conts'[1].spillError) =>
             /\ ~IsNil(conts'[1].rowPtrs)
             /\ cap(conts'[1].rowPtrs) = NumRow(conts'[1])
             /\ \A k \in 0..(NumRow(conts'[1]) - 1) : GetRowByIdx(conts'[1], k).err = "nil"
             /\ IsOrdered(RowsByRank(conts'[1]))
             /\ BagOf(RowsByRank(conts'[1])) = BagOf(RowsInOrder(conts'[1]))
       /\ SpillStep => RowsByRank(conts'[1]) = RowsByRank(conts[1])]_vars

\* C10 witness: a container sorted and spilled by a background task whose
\* rank order differs from its insertion order.
C10_Witness ==
  /\ kind = "SortedRowContainer" /\ alreadySpilled(conts[1]) /\ ~conts[1].spillError
  /\ NumRow(conts[1]) = MaxContRows
  /\ KeysOf(RowsByRank(conts[1])) # KeysOf(RowsInOrder(conts[1]))

\* ---------------------------------------------------------------- phase and errors of a container
Container == kind \in {"RowContainer", "SortedRowContainer"}

\* C11: a container that reports spilled holds no row in its in-memory list
\* and has a disk list, also after a spill that failed part-way.
C11_SpilledMeansMemoryEmpty ==
  (Container /\ alreadySpilled(conts[1])) =>
     /\ ListLen(conts[1].records) = 0
     /\ ~IsNil(conts[1].recordsInDisk)

\* A step of a driver's call of Reset.
ResetStep == lastOp'.op = "Reset" /\ lastOp'.n # lastOp.n

\* The step of Close that closes and drops the disk list.
CloseDiskStep == pc' = "close2" /\ pc # "close2"

\* C12 as stated: a spilled container stays spilled over every operation
\* other than Close, Reset included.
C12_AsStated ==
  [][(Container /\ alreadySpilled(conts[1]) /\ ~CloseDiskStep) =>
        alreadySpilled(conts'[1])]_vars

\* C12: a spilled container stays spilled over Add, SpillToDisk, the spill
\* action and its goroutine; Reset drops the disk list, and the container
\* reports unspilled after it.
C12_MonotonicUntilReset ==
  [][Container =>
       /\ (alreadySpilled(conts[1]) /\ ~ResetStep /\ ~CloseDiskStep) => alreadySpilled(conts'[1])
       /\ ResetStep => ~alreadySpilled(conts'[1])]_vars

\* C12 witness: Reset returned on a container whose spill had failed (the
\* error is still stored), and the container reports unspilled.
C12_Witness ==
  /\ Container /\ lastOp.op = "Reset" /\ conts[1].spillError /\ ~alreadySpilled(conts[1])

\* A step of a call of SpillToDisk: by the driver, or by a goroutine of the
\* spill action, which ends with it.
SpillCallStep ==
  \/ lastOp'.op = "SpillToDisk" /\ lastOp'.n # lastOp.n
  \/ \E t \in BagToSet(tasks) : t.pc = "spill" /\ tasks' = tasks (-) SetToBag({t})

C14_AsStated ==
  [][(kind = "RowContainer" /\ conts[1].spillError /\ AddStep) =>
        /\ lastOp'.err = "spillError"
        /\ conts' = conts]_vars

\* C14: while the container holds the disk list of a failed spill (until a
\* Reset or Close drops it) every Add returns the stored error and changes
\* nothing.
C14_AddAfterFailedSpill ==
  [][(kind = "RowContainer" /\ conts[1].spillError /\ alreadySpilled(conts[1]) /\ AddStep) =>
        /\ lastOp'.err = "spillError"
        /\ conts' = conts]_vars

\* C14 witness: an Add that returned the stored error of a spill that had
\* written one chunk before it failed.
C14_Witness ==
  /\ kind = "RowContainer" /\ lastOp.op = "Add" /\ lastOp.err = "spillError"
  /\ conts[1].spillError /\ NumRow(conts[1]) >= 1 /\ Len(conts[1].records) >= 2

\* A step in which a spill of container 1 fails.
FailedSpillStep == ~conts[1].spillError /\ conts'[1].spillError

\* C15: after a failed spill the container reports unspilled, has the rows
\* it had, and reads every RowPtr as before.
C15_FailedSpillStaysInMemory ==
  [][(Container /\ FailedSpillStep) =>
        /\ ~alreadySpilled(conts'[1])
        /\ NumRow(conts'[1]) = NumRow(conts[1])
        /\ \A ptr \in AllPtrs(conts[1]) : GetRow(conts'[1], ptr) = GetRow(conts[1], ptr)]_vars

\* C16: SortExec never signals the end of the stream after a spill of one
\* of its containers failed: the error is returned first, and no row is
\* missing from a finished drain.
C16_SpillErrorSurfaces ==
  (kind = "SortExec" /\ pc = "done") =>
     /\ \A i \in DOMAIN conts : ~conts[i].spillError
     /\ BagOf(out) = BagOf(input)

\* A step in which Next returns the child's error.
ChildErrStep == lastOp'.err = "childError" /\ lastOp.err # "childError"

\* C17: a Next call that meets an error of the child returns that error,
\* with an empty output chunk, no row added to the output, and the
\* executor not marked as fetched.
C17_ChildErrorAborts ==
  [][ChildErrStep =>
        /\ lastOp' = Op("Next", "childError", 0)
        /\ req' = <<>>
        /\ out' = out
        /\ ~fetched']_vars

\* C17 witness: the child failed during TopNExec's streaming phase, after
\* the container was loaded and the heap built.
C17_Witness ==
  /\ kind = "TopNExec" /\ pc = "error" /\ lastOp.err = "childError"
  /\ rowChunks # 0 /\ cap(conts[rowChunks].rowPtrs) >= 1

\* C18: after Reset returns without error the container is empty.
C18_ResetEmpties ==
  [][(Container /\ ResetStep /\ lastOp'.err = "nil") =>
        /\ NumRow(conts'[1]) = 0
        /\ NumChunks(conts'[1]) = 0]_vars

\* The step in which Close returns.
CloseReturnStep == pc' = "closed" /\ pc # "closed"

\* C19: when Close returns, the memory tracker is at 0, the disk list is
\* dropped and the disk tracker is back at 0.
C19_CloseReleasesAll ==
  [][(Container /\ CloseReturnStep) =>
        /\ conts'[1].memBytes = 0
        /\ IsNil(conts'[1].recordsInDisk)
        /\ conts'[1].diskBytes = 0]_vars

\* C20: the memory tracker of a container is never negative.
C20_TrackerNonNegative ==
  Container => \A i \in DOMAIN conts : conts[i].memBytes >= 0

\* ---------------------------------------------------------------- accounting
\* No call of the executor or of a container's driver is running and no
\* goroutine of a spill action is alive.
Quiescent == pc \in {"idle", "done"} /\ tasks = EmptyBag

\* C21: at every quiescent point the memory tracker of every container of
\* SortExec equals the footprint of the chunks in its in-memory list, and
\* is 0 for every spilled container.
C21_TrackerIsFootprint ==
  (kind = "SortExec" /\ Quiescent) =>
     \A i \in DOMAIN conts :
        /\ conts[i].memBytes = ListMemory(conts[i].records)
        /\ alreadySpilled(conts[i]) => conts[i].memBytes = 0

\* C22: once Close of SortExec or TopNExec has returned without error the
\* statement's tracker carries nothing of the executor: every byte it
\* charged has been released.
C22_CloseReleasesStatementTracker ==
  (kind \in {"SortExec", "TopNExec"} /\ pc = "closed") => StmtBytesConsumed = 0

\* SortExec.Close is running.
CloseRunning == pc \in {"closing", "close1", "close2"}

\* A goroutine of the spill action is working on container c.
TaskInFlightOn(c) == \E t \in BagToSet(tasks) : t.c = c

\* Close has returned and no goroutine of the spill action is left.
CloseAndTasksDone == pc = "closed" /\ tasks = EmptyBag

\* C23: when SortExec.Close runs while a sort-and-spill goroutine on one of
\* the executor's containers has not finished, then whenever both have
\* finished that container is not spilled and owns no disk list and no byte
\* on disk.
C23_CloseExcludesSpill ==
  \A c \in 1..(MaxExecRows + 1) :
     []((kind = "SortExec" /\ CloseRunning /\ TaskInFlightOn(c)) =>
          []((CloseAndTasksDone /\ c \in DOMAIN conts) =>
                /\ ~alreadySpilled(conts[c])
                /\ conts[c].diskBytes = 0))

\* ---------------------------------------------------------------- the spill actions
\* A step of Action that starts a goroutine, and one that calls the fallback.
LaunchStep == BagCardinality(tasks') > BagCardinality(tasks)
FallbackStep == nFallback' # nFallback

\* C24: an invocation of a spill action starts a goroutine only on a
\* container that is not spilled and whose tracker is above 0, starts
\* exactly one and leaves the fallback alone; it calls the fallback only
\* on a container that is spilled or whose tracker is at 0, calls it once
\* and starts nothing.
C24_ActionDispatch ==
  [][Container =>
       /\ LaunchStep =>
            /\ ~alreadySpilled(conts[spillAction])
            /\ conts[spillAction].memBytes # 0
            /\ BagCardinality(tasks') = BagCardinality(tasks) + 1
            /\ nFallback' = nFallback
       /\ FallbackStep =>
            /\ alreadySpilled(conts[spillAction]) \/ conts[spillAction].memBytes = 0
            /\ nFallback' = nFallback + 1
            /\ tasks' = tasks]_vars


\* C25: a spill action never performs the spill inside the callback: the
\* phase of a container flips only in a step of a separately scheduled spill
\* task, never in a step of the task that called Add or that invoked the
\* action, so an Add that triggered the callback returns with the container
\* still in memory.
C25_SpillNotInCallback ==
  [][(/\ kind \in {"RowContainer", "SortedRowContainer", "row_container.go"}
      /\ ~alreadySpilled(conts[1])
      /\ alreadySpilled(conts'[1]))
       => /\ lastOp' = lastOp
          /\ BagCardinality(tasks') < BagCardinality(tasks)]_vars

\* C26: once an invocation of the action has launched a spill task for a
\* container, no later invocation launches another one for it, those that
\* arrive before the task has flipped the phase included: a launch never
\* happens while a task of that container is in flight.
C26_AtMostOneSpillTask ==
  [][(Container /\ LaunchStep) => ~TaskInFlightOn(spillAction)]_vars

\* ---------------------------------------------------------------- the byte limit
\* The footprint of all chunks added so far: they are all in the in-memory
\* list until a spill has cleared it, and all in the disk list afterwards.
TotalAdded(c) == IF c.records # <<>> THEN ListMemory(c.records) ELSE c.diskBytes

C28_NoSpillWithoutTmpStorage ==
  (kind = "SortExec" /\ ~oomUseTmpStorage) =>
     /\ spillAction = 0
     /\ tasks = EmptyBag
     /\ \A i \in DOMAIN conts : ~alreadySpilled(conts[i])
     /\ pc \notin {"rollover", "retry", "panic"}
     /\ Len(partitionList) <= 1

C28_Witness ==
  /\ kind = "SortExec" /\ ~oomUseTmpStorage
  /\ pc = "done" /\ Len(input) = MaxRows /\ Len(out) = MaxRows
  /\ Len(partitionList) = 1
  /\ ~alreadySpilled(conts[partitionList[1]])

\* ---------------------------------------------------------------- readers of a spilled container
\* C29: a reader that is routed to the disk list (NumRow, GetChunk, GetRow of
\* a container whose recordsInDisk is set) sees a disk list that holds every
\* row that was in memory when the spill began: there is no state in which
\* recordsInDisk is set while chunks of the in-memory list have not been
\* written to it.
C29_ReadersSeeWholeDiskList ==
  (Container /\ alreadySpilled(conts[1])) =>
     \A k \in 1..Len(conts[1].records) :
        /\ k <= NumChunks(conts[1])
        /\ GetChunk(conts[1], k) = conts[1].records[k]

\* ---------------------------------------------------------------- freezing and appending
\* C30: in every state of SortExec, a container whose rowPtrs is non-null has
\* in rowPtrs exactly one pointer for each of its rows (no chunk was appended
\* after the pointer scan or missed by it), and the rows read through
\* rowPtrs are in the order of the comparator.
C30_PointersCoverContainer ==
  kind = "SortExec" =>
     \A i \in DOMAIN conts :
        ~IsNil(conts[i].rowPtrs) =>
           /\ cap(conts[i].rowPtrs) = NumRow(conts[i])
           /\ Range(Val(conts[i].rowPtrs)) = AllPtrs(conts[i])
           /\ IsOrdered(RowsByRank(conts[i]))

\* ---------------------------------------------------------------- the action across a roll-over
\* C31: after ResetRowContainer(c2) the target of the spill action is c2,
\* the executor's current container, and every invocation of the action
\* tests and spills that container only: a goroutine it starts works on the
\* current container, which is then in memory with a charged tracker, and
\* during the fetch that container is none of the earlier partitions.
C31_ActionFollowsReset ==
  [][kind = "SortExec" =>
       /\ spillAction' # 0 => spillAction' = rowChunks'
       /\ LaunchStep =>
            /\ tasks' = tasks (+) SetToBag({[c |-> rowChunks, pc |-> "sort"]})
            /\ pc \in {"fetch", "rollover", "retry"} => rowChunks \notin Range(partitionList)
            /\ ~alreadySpilled(conts[rowChunks]) /\ conts[rowChunks].memBytes # 0]_vars

\* C31 witness: a goroutine of the action at work on the second container
\* of the executor, the first one being a partition.
C31_Witness ==
  /\ kind = "SortExec" /\ Len(partitionList) >= 1 /\ rowChunks = 2
  /\ partitionList[1] = 1
  /\ \E t \in BagToSet(tasks) : t.c = rowChunks

\* C37: the Add retried on the container allocated by the roll-over is never
\* rejected with the already-sorted error: no goroutine of the action has
\* sorted that container before its first chunk is appended.
C37_RetryNeverRejected ==
  [][(kind = "SortExec" /\ pc = "retry") =>
        /\ IsNil(conts[rowChunks].rowPtrs)
        /\ lastOp'.err # "ErrInsertToPartitionFailed"]_vars

\* C37 witness: the retried Add has put the rejected chunk into the second
\* container while an invocation of the action was passed on to the fallback.
C37_Witness ==
  /\ kind = "SortExec" /\ pc = "fetch" /\ rowChunks = 2
  /\ NumRow(conts[2]) >= 1 /\ Len(partitionList) = 1

\* ---------------------------------------------------------------- the end of the stream
\* The number of rows the executor has to output for its input.
RowsToOutput ==
  IF kind = "SortExec" THEN Len(input)
  ELSE IF Len(input) <= limit.Offset THEN 0
  ELSE Min(limit.Count, Len(input) - limit.Offset)

\* A step in which Next returns without error.
NextOkStep == pc = "emit" /\ lastOp'.op = "Next" /\ lastOp'.err = "nil"

\* C32: a call of SortExec.Next or TopNExec.Next that returns without error
\* returns an empty chunk only at the end of the stream: while rows remain to
\* be output it appends at least one row and at most a full chunk, and when
\* it returns an empty chunk every row has been output.
C32_EmptyOnlyAtEnd ==
  [][(kind \in {"SortExec", "TopNExec"} /\ NextOkStep) =>
        /\ Len(req') <= MaxChunkSize
        /\ out' = out \o req'
        /\ Len(out) < RowsToOutput => Len(req') >= 1
        /\ req' = <<>> => Len(out') = RowsToOutput]_vars

\* ---------------------------------------------------------------- the heap of TopNExec
\* C40: TopNExec never reads the root of an empty heap: whenever
\* processChildChk is to handle a child row, rowPtrs holds at least one
\* pointer, and the executor never panics on rowPtrs[0].
C40_HeapRootExists ==
  kind = "TopNExec" =>
     /\ pc # "panic"
     /\ (pc = "process" /\ chkI < Len(chk)) => cap(conts[rowChunks].rowPtrs) >= 1

\* The child rows executeTopN and loadChunksUntilTotalLimit have handled so
\* far: all rows taken from the child but the rows of chk still to process.
TopNSeen == SubSeq(input, 1, Len(input) - Len(child) - (Len(chk) - chkI))

\* The rows the pointers of container c refer to, in heap order.
LiveRows(c) == [i \in 1..cap(c.rowPtrs) |-> GetRow(c, Val(c.rowPtrs)[i]).row]

\* The heap of TopNExec between two child rows: its size, its root, and its
\* rows being the first ones of the rows seen (every live row is a row seen,
\* and every row seen that sorts strictly before a live row is live).
TopNHeapInv ==
  LET live == LiveRows(conts[rowChunks])
      seen == TopNSeen
  IN /\ Len(live) = Min(totalLimit, Len(seen))
     /\ \A i \in DOMAIN live : ~Before(live[1], live[i])
     /\ \A v \in Range(live) :
          Cardinality({i \in DOMAIN live : live[i] = v})
            <= Cardinality({k \in DOMAIN seen : seen[k] = v})
     /\ \A l \in Range(live) :
          Cardinality({k \in DOMAIN seen : Before(seen[k], l)})
            = Cardinality({i \in DOMAIN live : Before(live[i], l)})

\* A step of processChildChk that replaces the root of the heap.
ReplaceStep ==
  /\ pc = "process" /\ pc' = "process" /\ chkI' = chkI + 1
  /\ conts'[rowChunks].rowPtrs # conts[rowChunks].rowPtrs

\* C33: while TopNExec streams the child, after every child row the heap has
\* min(N, rows seen) pointers, its root is a greatest live row of the
\* requested order, and the keys of the live rows are those of the N first
\* rows seen in that order; a child row replaces the root only when it sorts
\* strictly before it, and the pointer that comes into the heap is that of
\* the copy of the child row appended to the container.
C33_StreamingHeap ==
  [][(kind = "TopNExec" /\ pc' \in {"stream", "process", "checked"}) =>
        /\ TopNHeapInv'
        /\ ReplaceStep =>
             LET old == conts[rowChunks]
                 new == conts'[rowChunks]
                 next == chk[chkI + 1]
                 last == <<Len(new.records), Len(new.records[Len(new.records)])>>
             IN /\ Before(next, GetRow(old, Val(old.rowPtrs)[1]).row)
                /\ NumRow(new) = NumRow(old) + 1
                /\ GetRow(new, last).row = next
                /\ Range(Val(new.rowPtrs)) =
                     (Range(Val(old.rowPtrs)) \ {Val(old.rowPtrs)[1]}) \cup {last}]_vars

\* C33 witness: the heap is full and a child row has just replaced its root.
C33_Witness ==
  /\ kind = "TopNExec" /\ pc = "process" /\ chkI >= 1
  /\ totalLimit = MaxLimit /\ cap(conts[rowChunks].rowPtrs) = MaxLimit
  /\ NumRow(conts[rowChunks]) > MaxLimit
  /\ Len(conts[rowChunks].records[Len(conts[rowChunks].records)]) >= 1
  /\ <<Len(conts[rowChunks].records), Len(conts[rowChunks].records[Len(conts[rowChunks].records)])>>
       \in Range(Val(conts[rowChunks].rowPtrs))

\* The step of executeTopN that follows a processed child batch.
CompactionCheckStep == kind = "TopNExec" /\ pc = "process" /\ pc' = "checked"

\* C34: the compaction check after a child batch replaces the container
\* exactly when it holds more than topNCompactionFactor rows per live
\* pointer; the new container then holds one row per pointer, and the i-th
\* pointer resolves in it to the row the i-th pointer resolved to before.
C34_CompactionKeepsLiveRows ==
  [][CompactionCheckStep =>
       LET old == conts[rowChunks]
           new == conts'[rowChunks]
       IN IF NumRow(old) > topNCompactionFactor * cap(old.rowPtrs)
          THEN /\ NumRow(new) = cap(old.rowPtrs)
               /\ cap(new.rowPtrs) = cap(old.rowPtrs)
               /\ Range(Val(new.rowPtrs)) = AllPtrs(new)
               /\ LiveRows(new) = LiveRows(old)
               /\ new # old
          ELSE new = old]_vars

\* C34 witness: a compaction has just replaced a container of several live
\* rows (each compaction leaves a charge on the executor's tracker).
C34_Witness ==
  /\ kind = "TopNExec" /\ pc = "checked" /\ memTracker > 0
  /\ cap(conts[rowChunks].rowPtrs) >= 2
  /\ NumRow(conts[rowChunks]) = cap(conts[rowChunks].rowPtrs)

\* C36: once SortExec has fetched, every container of partitionList is
\* frozen (rowPtrs non-nil with at least one pointer) and holds at least one
\* row.
C36_PartitionsFrozenNonEmpty ==
  (kind = "SortExec" /\ fetched) =>
     \A i \in DOMAIN partitionList :
        LET c == conts[partitionList[i]]
        IN ~IsNil(c.rowPtrs) /\ cap(c.rowPtrs) >= 1 /\ NumRow(c) >= 1

\* The invocations of PanicOnExceed.Action at one of the positions ps.
InvAt(ps) == {i \in Invocations : panicOnExceed.inv[i] \in ps}

\* C35 as stated: the invocation that panics has called the log hook.
C35_AsStated ==
  kind = "PanicOnExceed" =>
     \A i \in InvAt({"panic", "panicked"}) : panicOnExceed.hooked = <<i>>

\* C35: of the concurrent invocations of Action the first to take the mutex,
\* and no other, goes on to panic; it calls the log hook if one is set, once,
\* and does not hold the mutex when it panics; every other invocation
\* returns; and every invocation called ends, one of them by the panic.
C35_OnePanics ==
  /\ [](kind = "PanicOnExceed" =>
          /\ Cardinality(InvAt({"Unlock", "logHook", "panic", "panicked"})) <= 1
          /\ panicOnExceed.acted <=> InvAt({"Unlock", "logHook", "panic", "panicked"}) # {}
          /\ InvAt({"returned"}) # {} => panicOnExceed.acted
          /\ \A i \in InvAt({"panic", "panicked"}) :
               panicOnExceed.hooked = IF panicOnExceed.logHook THEN <<i>> ELSE <<>>
          /\ \A i \in InvAt({"none", "Lock", "test", "Unlock", "returned"}) :
               i \notin Range(panicOnExceed.hooked))
  /\ [][kind = "PanicOnExceed" =>
          \A i \in Invocations :
             /\ (panicOnExceed.inv[i] = "panic" /\ panicOnExceed'.inv[i] = "panicked")
                  => panicOnExceed.M # i
             /\ (panicOnExceed.inv[i] = "test" /\ panicOnExceed'.inv[i] = "Unlock")
                  => InvAt({"returned"}) = {}]_vars
  /\ \A i \in Invocations :
       (kind = "PanicOnExceed" /\ panicOnExceed.inv[i] # "none")
          ~> (panicOnExceed.inv[i] \in {"returned", "panicked"})
  /\ (kind = "PanicOnExceed" /\ InvAt({"none"}) # Invocations)
       ~> (Cardinality(InvAt({"panicked"})) = 1)

\* C35 witness: without a log hook one invocation has panicked and two have
\* returned.
C35_Witness ==
  /\ kind = "PanicOnExceed" /\ ~panicOnExceed.logHook
  /\ Cardinality(InvAt({"panicked"})) = 1
  /\ Cardinality(InvAt({"returned"})) = 2

\* The calls and goroutines that have begun and not ended.
Running == {g \in Goroutines : at[g] \notin {"idle", "none", "done"}}

\* No call and no goroutine that has begun is left without a possible step.
NeverStuck == Running # {} => ENABLED LockProgress

\* C39: a plain RowContainer with SpillDiskAction never reaches a state
\* where calls or goroutines have begun and none of them can take a step.
C39_PlainNeverStuck == (kind = "RowContainer" /\ mutex # Nil) => NeverStuck

\* C38: with a SortedRowContainer and SortAndSpillDiskAction no state is
\* reached where what has begun cannot go on, every call of Add returns,
\* every invocation of the action returns, and every goroutine the action
\* has started ends.
C38_SortedCompletes ==
  /\ []((kind = "SortedRowContainer" /\ mutex # Nil) => NeverStuck)
  /\ \A g \in {producer, bystander} :
       (kind = "SortedRowContainer" /\ mutex # Nil /\ at[g] # "idle") ~> (at[g] = "idle")
  /\ \A i \in TaskIds :
       (kind = "SortedRowContainer" /\ mutex # Nil /\ at[i] # "none") ~> (at[i] = "done")

\* C38 witness: the callback runs inside Add, about to take the read lock of
\* m a second time, while a goroutine started earlier waits for the write
\* lock of ptrM.
C38_Witness ==
  /\ kind = "SortedRowContainer" /\ mutex # Nil
  /\ at[producer] = "Safe.RLock"
  /\ BagIn(producer, mutex.m.readers) /\ BagIn(producer, mutex.ptrM.readers)
  /\ mutex.ptrM.pending # {}

====
